---- MODULE Spec2Model ----
(***************************************************************************)
(* Verification model of the documentation-change pipeline of doccelerate: *)
(* the anchor-text operation engine (api/app/services/operations_parser.py)*)
(* and the two-pass query job (api/app/services/two_pass_generator.py,     *)
(* api/app/tasks/query.py).                                                *)
(*                                                                         *)
(* Text is a sequence of one-character strings.  Positions are 0-based as  *)
(* in Python; Slice(s, i, j) is s[i:j].                                    *)
(***************************************************************************)
EXTENDS Integers, Sequences, FiniteSets, TLC

\* ------------------------------------------------------------- bounds
MaxLen == 3        \* longest input content, in characters
MaxFind == 2       \* longest anchor (find) text
MaxArg == 1        \* longest insert / replace / until text
MaxOps == 2        \* longest operations list handed to apply_operations_to_content
MaxText == 7       \* longest text handed to split_text_by_tokens, in characters
MaxTokens == 4     \* largest max_tokens
MaxOverlap == 4    \* largest overlap_tokens
MaxWindows == 8    \* loop iterations of split_text_by_tokens followed
MaxFileChunks == 2 \* most chunks of one file

\* ------------------------------------------------------------- text
LF == "\n"
CR == "\r"
LS == "U+2028"    \* the character LINE SEPARATOR
Letters == {"a", "b"}
Alphabet == Letters \cup {LF, CR}

\* Python's None, kept apart from every text (no text holds this element).
None == <<"None">>

RECURSIVE StringsUpTo(_)
StringsUpTo(n) ==
    IF n = 0 THEN {<<>>}
    ELSE LET shorter == StringsUpTo(n - 1)
         IN  shorter \cup {Append(s, c) : s \in {t \in shorter : Len(t) = n - 1}, c \in Alphabet}

\* s[i:j] for 0 <= i, j (clamped to the length as Python slices are)
Slice(s, i, j) ==
    LET hi == IF j > Len(s) THEN Len(s) ELSE j
    IN  IF i >= hi THEN <<>> ELSE SubSeq(s, i + 1, hi)

\* s[i:]
SliceFrom(s, i) == Slice(s, i, Len(s))

\* s[i:i+len(sub)] == sub
MatchAt(s, sub, i) ==
    /\ i + Len(sub) <= Len(s)
    /\ \A k \in 1..Len(sub) : s[i + k] = sub[k]

\* str.find(sub, start): lowest index >= start where sub occurs, else -1
StrFind(s, sub, start) ==
    LET hits == {i \in start..(Len(s) - Len(sub)) : MatchAt(s, sub, i)}
    IN  IF hits = {} THEN -1
        ELSE CHOOSE i \in hits : \A j \in hits : i <= j

\* sub in s
StrContains(s, sub) == StrFind(s, sub, 0) # -1

\* The characters str.splitlines() breaks at (of those the texts here hold).
LineBoundaries == {LF, CR, LS}

\* str.splitlines(): break at LF, CR, CRLF and U+2028; terminators are dropped
\* and a final terminator opens no further (empty) line.
\* The lines of s from its i-th character on.
RECURSIVE SplitLinesFrom(_, _)
SplitLinesFrom(s, i) ==
    LET breaks == {j \in i..Len(s) : s[j] \in LineBoundaries}
        at == CHOOSE j \in breaks : \A k \in breaks : j <= k
    IN  IF i > Len(s) THEN <<>>
        ELSE IF breaks = {} THEN <<SubSeq(s, i, Len(s))>>
        ELSE <<SubSeq(s, i, at - 1)>>
                \o SplitLinesFrom(s, IF s[at] = CR /\ at < Len(s) /\ s[at + 1] = LF
                                      THEN at + 2 ELSE at + 1)

SplitLines(s) == SplitLinesFrom(s, 1)

\* '\n'.join(lines)
RECURSIVE JoinLines(_)
JoinLines(lines) ==
    IF lines = <<>> THEN <<>>
    ELSE IF Len(lines) = 1 THEN lines[1]
    ELSE lines[1] \o <<LF>> \o JoinLines(Tail(lines))

\* len(text.split('\n')) - 1: the number of LF in text
RECURSIVE CountLF(_)
CountLF(text) ==
    IF text = <<>> THEN 0
    ELSE (IF Head(text) = LF THEN 1 ELSE 0) + CountLF(Tail(text))

\* list.insert(idx, x): idx beyond the end appends
ListInsert(lines, idx, x) ==
    LET at == IF idx > Len(lines) THEN Len(lines) ELSE idx
    IN  SubSeq(lines, 1, at) \o <<x>> \o SubSeq(lines, at + 1, Len(lines))

\* str.replace(old, new): every non-overlapping occurrence, left to right;
\* an empty old matches before every character and at the end.
RECURSIVE ReplaceFrom(_, _, _, _)
ReplaceFrom(s, old, new, i) ==
    IF old = <<>>
    THEN (IF i >= Len(s) THEN new
          ELSE new \o <<s[i + 1]>> \o ReplaceFrom(s, old, new, i + 1))
    ELSE IF i >= Len(s) THEN <<>>
    ELSE IF MatchAt(s, old, i) THEN new \o ReplaceFrom(s, old, new, i + Len(old))
    ELSE <<s[i + 1]>> \o ReplaceFrom(s, old, new, i + 1)

StrReplace(s, old, new) == ReplaceFrom(s, old, new, 0)

\* ------------------------------------------------------------- operations
INSERT_AFTER == "insertAfter"
INSERT_BEFORE == "insertBefore"
REPLACE == "replace"
DELETE_BLOCK == "deleteBlock"
OperationType == {INSERT_AFTER, INSERT_BEFORE, REPLACE, DELETE_BLOCK}

Files == {"f1", "f2"}

\* An element without the file key (or with null for it), and a field value
\* that is no string (a JSON list or object).
NoFile == "None"
NotAString == <<"NotAString">>

\* A schema-valid Operation: find always, and the field its kind requires.
Operation(file, op, find, arg) ==
    [file |-> file, op |-> op, find |-> find,
     replace |-> IF op = REPLACE THEN arg ELSE None,
     insert |-> IF op \in {INSERT_AFTER, INSERT_BEFORE} THEN arg ELSE None,
     until |-> IF op = DELETE_BLOCK THEN arg ELSE None]

\* What a call gives back: a text, or the OperationApplyError it raised.
Returned(text) == [ok |-> TRUE, text |-> text]
Raised == [ok |-> FALSE, text |-> None]

_apply_insert_after(lines, operation) ==
    LET find_text == operation.find
        insert_text == operation.insert
        full_content == JoinLines(lines)
        match_start == StrFind(full_content, find_text, 0)
        match_end == match_start + Len(find_text)
        target_line_idx == CountLF(Slice(full_content, 0, match_end))
    IN  IF ~StrContains(full_content, find_text) THEN Raised
        ELSE Returned(JoinLines(ListInsert(lines, target_line_idx + 1, insert_text)))

_apply_insert_before(lines, operation) ==
    LET find_text == operation.find
        insert_text == operation.insert
        full_content == JoinLines(lines)
        match_start == StrFind(full_content, find_text, 0)
        target_line_idx == CountLF(Slice(full_content, 0, match_start))
    IN  IF ~StrContains(full_content, find_text) THEN Raised
        ELSE Returned(JoinLines(ListInsert(lines, target_line_idx, insert_text)))

_apply_replace(lines, operation) ==
    LET find_text == operation.find
        replace_text == operation.replace
        full_content == JoinLines(lines)
    IN  IF ~StrContains(full_content, find_text) THEN Raised
        ELSE Returned(StrReplace(full_content, find_text, replace_text))

_apply_delete_block(lines, operation) ==
    LET find_text == operation.find
        until_text == operation.until
        full_content == JoinLines(lines)
        start_pos == StrFind(full_content, find_text, 0)
        end_pos == StrFind(full_content, until_text, start_pos)
    IN  IF start_pos = -1 THEN Raised
        ELSE IF end_pos = -1 THEN Raised
        ELSE Returned(Slice(full_content, 0, start_pos)
                      \o SliceFrom(full_content, end_pos + Len(until_text)))

\* OperationApplier.apply_operation_to_content.  content = None has no
\* splitlines: that AttributeError is raised outside the try block, so it is
\* not an OperationApplyError.
AttributeError == [ok |-> FALSE, text |-> <<"AttributeError">>]

apply_operation_to_content(content, operation) ==
    IF content = None THEN AttributeError
    ELSE LET lines == SplitLines(content)
         IN  CASE operation.op = INSERT_AFTER -> _apply_insert_after(lines, operation)
               [] operation.op = INSERT_BEFORE -> _apply_insert_before(lines, operation)
               [] operation.op = REPLACE -> _apply_replace(lines, operation)
               [] operation.op = DELETE_BLOCK -> _apply_delete_block(lines, operation)
               [] OTHER -> Raised

\* OperationApplier.apply_operations_to_content as a function of its inputs:
\* the first operation that raises ends the call.
RECURSIVE apply_operations_to_content(_, _)
apply_operations_to_content(content, operations) ==
    IF operations = <<>> THEN Returned(content)
    ELSE LET r == apply_operation_to_content(content, Head(operations))
         IN  IF r.ok THEN apply_operations_to_content(r.text, Tail(operations))
             ELSE r

\* ------------------------------------------------------------- query job: inputs
MaxOperations == 2     \* most elements of detailed_operations

StoreContents == {<<"a">>, <<"b">>}

\* Elements a model response may hold: operations on either file, and one
\* element that violates the Operation schema (a replace without replace).
ReplaceAB(f) == Operation(f, REPLACE, <<"a">>, <<"b">>)
InsertAfterB(f) == Operation(f, INSERT_AFTER, <<"b">>, <<"a">>)
Malformed == [file |-> "f1", op |-> REPLACE, find |-> <<"a">>,
              replace |-> None, insert |-> None, until |-> None]
ResponseElements ==
    {ReplaceAB(f) : f \in Files} \cup {InsertAfterB("f1"), Malformed}

RECURSIVE SeqsUpTo(_, _)
SeqsUpTo(S, n) ==
    IF n = 0 THEN {<<>>}
    ELSE LET shorter == SeqsUpTo(S, n - 1)
         IN  shorter \cup {Append(q, x) : q \in {t \in shorter : Len(t) = n - 1}, x \in S}

\* A completion: none (the provider failed on every attempt), text that is no
\* JSON, JSON that is no list, or a JSON list.
NoResponse == [kind |-> "none", items |-> <<>>]
NotJson == [kind |-> "not_json", items |-> <<>>]
NotAList == [kind |-> "not_list", items |-> <<>>]
JsonList(items) == [kind |-> "list", items |-> items]

OperationsResponses ==
    {NoResponse, NotJson, NotAList}
        \cup {JsonList(items) : items \in SeqsUpTo(ResponseElements, MaxOperations)}

\* A selection list names each file at most once.
Selections ==
    {q \in SeqsUpTo(Files, Cardinality(Files)) :
        \A i, j \in 1..Len(q) : i # j => q[i] # q[j]}

SelectionResponses ==
    {NoResponse, NotJson, NotAList} \cup {JsonList(items) : items \in Selections}

\* Retrieved chunks: file path and similarity in hundredths.
Chunk(f, similarity) == [file_path |-> f, similarity |-> similarity]
ChunkCandidates == {Chunk(f, sim) : f \in Files, sim \in {2, 30}}

\* ------------------------------------------------------------- query job: functions
Schema(e) ==
    /\ e.file # NoFile
    /\ e.op \in OperationType
    /\ \A value \in {e.find, e.replace, e.insert, e.until} : value # NotAString
    /\ e.find # None
    /\ e.op = REPLACE => e.replace # None
    /\ e.op \in {INSERT_AFTER, INSERT_BEFORE} => e.insert # None
    /\ e.op = DELETE_BLOCK => e.until # None

ParseError == [ok |-> FALSE, text |-> <<"OperationParseError">>]

\* The schema-valid operations of a batch, the others left out.
RECURSIVE KeepValid(_)
KeepValid(operations_json) ==
    IF operations_json = <<>> THEN Returned(<<>>)
    ELSE LET rest == KeepValid(Tail(operations_json)).text
         IN  Returned(IF Schema(Head(operations_json))
                      THEN <<Head(operations_json)>> \o rest ELSE rest)

\* OperationValidator.validate_operations: one element off the schema fails
\* the whole list.
validate_operations(operations_json) ==
    IF \A i \in 1..Len(operations_json) : Schema(operations_json[i])
    THEN Returned(operations_json)
    ELSE ParseError

\* OperationValidator.validate_operations_apply_to_content: "True", or
\* "False" on a parse or apply error; any other exception leaves the call.
validate_operations_apply_to_content(text, operations_json) ==
    LET parsed == validate_operations(operations_json)
        r == apply_operations_to_content(text, parsed.text)
    IN  IF ~parsed.ok THEN "False"
        ELSE IF r.ok THEN "True"
        ELSE IF r = AttributeError THEN "AttributeError"
        ELSE "False"

\* OperationJSONParser.parse_operations_json: only a JSON list is returned,
\* its elements unchecked.
parse_operations_json(response) ==
    IF response.kind = "list" THEN Returned(response.items) ELSE ParseError

\* _generate_operations_for_file: no response and every exception give [].
_generate_operations_for_file(response) ==
    IF response.kind = "none" THEN <<>>
    ELSE LET parsed == parse_operations_json(response)
         IN  IF parsed.ok THEN parsed.text ELSE <<>>

\* _parse_file_selection_response: anything but a JSON list of strings gives [].
_parse_file_selection_response(response) ==
    IF response.kind = "list" THEN response.items ELSE <<>>

\* _group_operations_by_file: the keys in order of first appearance, and the
\* operations of one key in their order in the list.
RECURSIVE GroupKeys(_, _)
GroupKeys(operations, seen) ==
    IF operations = <<>> THEN <<>>
    ELSE IF Head(operations).file \in seen THEN GroupKeys(Tail(operations), seen)
    ELSE <<Head(operations).file>>
            \o GroupKeys(Tail(operations), seen \cup {Head(operations).file})

\* A grouping that puts each operation in front of the ones before it.
RECURSIVE GroupReversed(_, _)
GroupReversed(operations, file_path) ==
    IF operations = <<>> THEN <<>>
    ELSE GroupReversed(Tail(operations), file_path)
            \o (IF Head(operations).file = file_path THEN <<Head(operations)>> ELSE <<>>)

RECURSIVE _group_operations_by_file(_, _)
_group_operations_by_file(operations, file_path) ==
    IF operations = <<>> THEN <<>>
    ELSE (IF Head(operations).file = file_path THEN <<Head(operations)>> ELSE <<>>)
            \o _group_operations_by_file(Tail(operations), file_path)

\* ------------------------------------------------------------- state
VARIABLES
    \* OperationApplier.apply_operations_to_content
    content,     \* the content argument
    result,      \* its local result
    before,      \* result as it was when the last operation was taken up
    operation,   \* the operation of the last loop iteration
    applied,     \* loop iterations started so far
    outcome,     \* "loop", "returned" or "raised"
    returned,    \* what the caller received (None: nothing)
    \* one two-pass query job (_run_query_two_pass)
    pc,                    \* the step the task is at
    job,                   \* the Job record
    selection,             \* Pass 1: what became of the selection response
    relevant_chunks,       \* Pass 1: the candidates passed on to summary building
    files_to_edit,         \* Pass 1: selected paths
    cached_content,        \* Pass 1: path -> content shown to the model
    generation,            \* Pass 2: per iteration, the file and what it gave
    detailed_operations,   \* Pass 2: the flat operations list
    pending,               \* suggestion creation: files still to handle
    validation,            \* per file: what validation fetched, ran and said
    suggestion_table,      \* Suggestion rows
    review_decision_table, \* ReviewDecision rows
    suggestions            \* the list create_suggestions_from_operations returns

applyVars == <<content, result, before, operation, applied, outcome, returned>>
queryVars == <<pc, job, selection, relevant_chunks, files_to_edit, cached_content, generation,
               detailed_operations, pending, validation, suggestion_table,
               review_decision_table, suggestions>>

VARIABLES
    \* OpenAIService.split_text_by_tokens
    tokens,          \* the encoded text
    max_tokens,      \* its argument
    overlap_tokens,  \* its argument
    start,           \* the loop variable
    chunks,          \* the chunks appended so far, each with its window
    split_pc         \* "idle", "loop" or "returned"

splitVars == <<tokens, max_tokens, overlap_tokens, start, chunks, split_pc>>

VARIABLES
    \* ChunkService, run by concurrent indexing jobs on one database
    chunk_table,           \* rows of public.chunk
    embeddings_generated,  \* the provider calls that returned an embedding
    file_chunk_table,      \* FileChunkLink rows
    worker                 \* per indexing job: its file's chunks and where it is

chunkVars == <<chunk_table, embeddings_generated, file_chunk_table, worker>>

VARIABLES
    \* one indexing run and the endpoint that dispatched it
    implementation,  \* "orchestrator" (IndexingOrchestrator) or "task" (_run_indexing_internal)
    soft_reindex,    \* the run's argument
    files_found,     \* whether the repository has stored File records
    index_pc,        \* the step the run is at
    index_job,       \* the run's Job record (NoJob until the endpoint creates it)
    reported,        \* the (step, progress) pairs passed to update_state, in order
    temp_dir,        \* the local temp_dir of the frame that has the finally block
    directories,     \* the directories mkdtemp created that still exist
    exception,       \* str(e) of the exception on its way to the except block
    index_result     \* the status of the dict the run returned ("none": nothing yet)

indexVars == <<implementation, soft_reindex, files_found, index_pc, index_job, reported,
               temp_dir, directories, exception, index_result>>

VARIABLES
    \* one model response on its way to the suggestions' operations_json
    llm_operations,  \* the operations the response was written from
    raw_response,    \* the response text
    cleaned_response,\* parse_operations_json: its local, the text handed to json.loads
    parse_pc,        \* "idle", "clean", "parse", "validate", "store", "stored" or "failed"
    parsed_json,     \* what parse_operations_json returned
    validated,       \* what validate_operations returned
    stored_json      \* per file, the operations_json text of its suggestion

parseVars == <<llm_operations, raw_response, cleaned_response, parse_pc, parsed_json, validated,
               stored_json>>

VARIABLES
    \* one call of find_elbow_point
    similarity_scores, \* its argument, in hundredths
    min_docs,          \* ElbowAnalyzer.min_docs
    max_docs,          \* ElbowAnalyzer.max_docs
    relevant_scores,   \* its local relevant_scores
    elbow_pc,          \* "idle", "filter", "detect" or "returned"
    elbow_result       \* the returned count and the method of its metadata

elbowVars == <<similarity_scores, min_docs, max_docs, relevant_scores, elbow_pc, elbow_result>>

VARIABLES
    \* two repository states whose trees are calculated
    files_data,       \* per state, the list of (path, content_hash) of its files
    root_hash,        \* per state, what _calculate_root_hash returned
    merkle_pc         \* per state, "idle", "collected" or "calculated"

merkleVars == <<files_data, root_hash, merkle_pc>>

VARIABLES
    \* one call of generate_embedding_with_retry
    embed_text,      \* its text: "text" or "blank" (empty after strip)
    max_retries,     \* its max_retries
    attempt,         \* the loop variable
    embed_pc,        \* "idle", "loop" or "returned"
    provider_log,    \* provider calls and sleeps of the call, in order
    retry_result     \* what the call returned

retryVars == <<embed_text, max_retries, attempt, embed_pc, provider_log, retry_result>>

VARIABLES
    \* file records and chunk links over several indexing runs
    file_table,       \* table file: records with id, repo_id and path
    link_table,       \* table file_chunk: rows with file_id, chunk_order, chunk_hash
    link_run,         \* the indexing run that is storing one file's data
    runs_started      \* indexing runs so far

linkVars == <<file_table, link_table, link_run, runs_started>>

vars == <<applyVars, queryVars, splitVars, chunkVars, indexVars, parseVars, elbowVars, merkleVars, retryVars, linkVars>>

\* What an action of one machine leaves alone in the others.
outsideApplier == <<queryVars, splitVars, chunkVars, indexVars, parseVars, elbowVars, merkleVars, retryVars, linkVars>>
outsideQuery == <<applyVars, splitVars, chunkVars, indexVars, parseVars, elbowVars, merkleVars, retryVars, linkVars>>
outsideSplit == <<applyVars, queryVars, chunkVars, indexVars, parseVars, elbowVars, merkleVars, retryVars, linkVars>>
outsideChunks == <<applyVars, queryVars, splitVars, indexVars, parseVars, elbowVars, merkleVars, retryVars, linkVars>>
outsideIndex == <<applyVars, queryVars, splitVars, chunkVars, parseVars, elbowVars, merkleVars, retryVars, linkVars>>
outsideParse == <<applyVars, queryVars, splitVars, chunkVars, indexVars, elbowVars, merkleVars, retryVars, linkVars>>
outsideElbow == <<applyVars, queryVars, splitVars, chunkVars, indexVars, parseVars, merkleVars, retryVars, linkVars>>
outsideMerkle == <<applyVars, queryVars, splitVars, chunkVars, indexVars, parseVars, elbowVars, retryVars, linkVars>>
outsideRetry == <<applyVars, queryVars, splitVars, chunkVars, indexVars, parseVars, elbowVars, merkleVars, linkVars>>
outsideLinks == <<applyVars, queryVars, splitVars, chunkVars, indexVars, parseVars, elbowVars, merkleVars, retryVars>>

NotValidated == [fetched |-> None, operations |-> <<>>, verdict |-> "none"]

\* The query job before its task starts: the Job record is pending.
QueryIdle ==
    /\ pc = "starting"
    /\ job = [status |-> "pending", progress |-> 0, error_msg |-> None,
              current_step |-> "none", suggestions_created |-> -1]
    /\ selection = "none"
    /\ relevant_chunks = {}
    /\ files_to_edit = <<>>
    /\ cached_content = [f \in Files |-> None]
    /\ generation = <<>>
    /\ detailed_operations = <<>>
    /\ pending = <<>>
    /\ validation = [f \in Files |-> NotValidated]
    /\ suggestion_table = {}
    /\ review_decision_table = {}
    /\ suggestions = <<>>

NoOperation == [file |-> "f1", op |-> "none", find |-> None,
                replace |-> None, insert |-> None, until |-> None]

\* The applier before a call.
ApplierIdle ==
    /\ operation = NoOperation
    /\ applied = 0
    /\ outcome = "loop"
    /\ returned = None

\* The applier with nothing to work on.
ApplierUnused ==
    /\ content = <<>>
    /\ result = <<>>
    /\ before = <<>>
    /\ ApplierIdle

\* The indexing jobs of the chunk machine.
Workers == {"w1", "w2"}

NoWork == [chunks |-> <<>>, i |-> 0, pc |-> "done", existing |-> <<>>,
           embedding |-> None, file_chunks |-> <<>>]

\* No indexing job running.
ChunksIdle ==
    /\ chunk_table = {}
    /\ embeddings_generated = {}
    /\ file_chunk_table = {}
    /\ worker = [w \in Workers |-> NoWork]

\* No Job record with the run's task_id.
NoJob == [status |-> "absent", progress |-> 0, current_step |-> "none", error_msg |-> None]

\* No indexing run dispatched.
IndexIdle ==
    /\ implementation = "task"
    /\ soft_reindex = FALSE
    /\ files_found = FALSE
    /\ index_pc = "idle"
    /\ index_job = NoJob
    /\ reported = <<>>
    /\ temp_dir = None
    /\ directories = {}
    /\ exception = None
    /\ index_result = "none"

\* No response being parsed.
ParseIdle ==
    /\ llm_operations = <<>>
    /\ raw_response = <<>>
    /\ cleaned_response = <<>>
    /\ parse_pc = "idle"
    /\ parsed_json = ParseError
    /\ validated = ParseError
    /\ stored_json = [f \in Files |-> None]

\* find_elbow_point not called.
NoElbow == [count |-> 0, method |-> "none"]

ElbowIdle ==
    /\ similarity_scores = <<>>
    /\ min_docs = 3
    /\ max_docs = 50
    /\ relevant_scores = <<>>
    /\ elbow_pc = "idle"
    /\ elbow_result = NoElbow

\* The repository states of the tree calculation.
RepoStates == {1, 2}

\* No tree calculated.
MerkleIdle ==
    /\ files_data = [r \in RepoStates |-> <<>>]
    /\ root_hash = [r \in RepoStates |-> None]
    /\ merkle_pc = [r \in RepoStates |-> "idle"]

\* generate_embedding_with_retry not called.
RetryIdle ==
    /\ embed_text = "blank"
    /\ max_retries = 0
    /\ attempt = 0
    /\ embed_pc = "idle"
    /\ provider_log = <<>>
    /\ retry_result = None

\* No indexing run is storing data.
NoRun == [repo_id |-> "r1", path |-> "f1", chunks |-> <<>>, store |-> "task",
          pc |-> "idle", file_id |-> None, written |-> {}]

LinksIdle ==
    /\ file_table = {}
    /\ link_table = {}
    /\ link_run = NoRun
    /\ runs_started = 0

\* The splitter not called.
SplitIdle ==
    /\ tokens = <<>>
    /\ max_tokens = 1
    /\ overlap_tokens = 0
    /\ start = 0
    /\ chunks = <<>>
    /\ split_pc = "idle"

\* ------------------------------------------------------------- the applier, step by step
Contents == StringsUpTo(MaxLen)
FindTexts == StringsUpTo(MaxFind)
ArgTexts == StringsUpTo(MaxArg)

ApplierOperations ==
    {Operation("f1", op, find, arg) : op \in OperationType, find \in FindTexts, arg \in ArgTexts}

ApplyInit ==
    /\ content \in Contents
    /\ result = content
    /\ before = content
    /\ ApplierIdle
    /\ QueryIdle
    /\ SplitIdle
    /\ ChunksIdle
    /\ IndexIdle
    /\ ParseIdle
    /\ ElbowIdle
    /\ MerkleIdle
    /\ RetryIdle
    /\ LinksIdle

\* One iteration of the loop of apply_operations_to_content; the operations
\* list is an input, so the next element is any operation.
ApplyNextOperation(op) ==
    /\ outcome = "loop"
    /\ applied < MaxOps
    /\ LET r == apply_operation_to_content(result, op)
       IN  /\ result' = IF r.ok THEN r.text ELSE result
           /\ outcome' = IF r.ok THEN "loop" ELSE "raised"
    /\ before' = result
    /\ operation' = op
    /\ applied' = applied + 1
    /\ UNCHANGED <<content, returned, outsideApplier>>

\* The list is exhausted: return result.
ReturnResult ==
    /\ outcome = "loop"
    /\ outcome' = "returned"
    /\ returned' = result
    /\ UNCHANGED <<content, result, before, operation, applied, outsideApplier>>

ApplyNext ==
    \/ \E op \in ApplierOperations : ApplyNextOperation(op)
    \/ ReturnResult

SpecApply == ApplyInit /\ [][ApplyNext]_vars

\* ------------------------------------------------------------- the query job, step by step
NoiseFloor == 5          \* similarity 0.05, in hundredths
VectorThreshold == 20    \* similarity_threshold 0.2, in hundredths
NoProgress == -1         \* progress=None

VectorCandidates == {c \in ChunkCandidates : c.similarity >= VectorThreshold}

\* _update_job_progress: status always, progress and error_msg when given,
\* the step into the metadata.
_update_job_progress(j, status, progress, step, error_msg) ==
    [j EXCEPT !.status = status,
              !.progress = IF progress = NoProgress THEN @ ELSE progress,
              !.current_step = step,
              !.error_msg = IF error_msg = None THEN @ ELSE error_msg]

\* _update_job_completion: the completion fields of the metadata.
_update_job_completion(j, suggestions_created) ==
    [j EXCEPT !.suggestions_created = suggestions_created]

\* pass_1_file_selection.  vector and fulltext are what the two searches
\* return, docs what the content store gives for each file at this moment
\* (None: nothing, or the fetch failed).
pass_1_file_selection(embedding_ok, vector, fulltext, response, docs) ==
    LET found == IF vector # {} THEN vector ELSE fulltext
        filtered_chunks == {c \in found : c.similarity >= NoiseFloor}
        kept == IF filtered_chunks # {} THEN filtered_chunks ELSE found
        file_summaries == {c.file_path : c \in kept}
        full_content(f) == IF docs[f] # None THEN docs[f] ELSE <<>>
        files == _parse_file_selection_response(response)
        selected == {files[i] : i \in 1..Len(files)}
        nothing(why, passed_on) ==
            [files_to_edit |-> <<>>,
             cached_content |-> [f \in Files |-> None],
             relevant_chunks |-> passed_on,
             selection |-> why]
    IN  IF ~embedding_ok THEN nothing("no_embedding", {})
        ELSE IF kept = {} THEN nothing("no_chunks", {})
        ELSE IF response.kind = "none" THEN nothing("no_response", kept)
        ELSE [files_to_edit |-> files,
              relevant_chunks |-> kept,
              cached_content |-> [f \in Files |->
                  IF f \in selected /\ f \in file_summaries THEN full_content(f) ELSE None],
              selection |-> IF response.kind = "list" THEN "parsed" ELSE "unparsable"]

QueryInit ==
    /\ QueryIdle
    /\ ApplierUnused
    /\ SplitIdle
    /\ ChunksIdle
    /\ IndexIdle
    /\ ParseIdle
    /\ ElbowIdle
    /\ MerkleIdle
    /\ RetryIdle
    /\ LinksIdle

\* _run_query_two_pass, step 1.
StartTask ==
    /\ pc = "starting"
    /\ job' = _update_job_progress(job, "running", 0, "starting", None)
    /\ pc' = "initializing_two_pass"
    /\ UNCHANGED <<outsideQuery, selection, relevant_chunks, files_to_edit, cached_content, generation,
                   detailed_operations, pending, validation, suggestion_table,
                   review_decision_table, suggestions>>

\* Step 2.
InitializeTwoPass ==
    /\ pc = "initializing_two_pass"
    /\ job' = _update_job_progress(job, "running", 10, "initializing_two_pass", None)
    /\ pc' = "two_pass_generation"
    /\ UNCHANGED <<outsideQuery, selection, relevant_chunks, files_to_edit, cached_content, generation,
                   detailed_operations, pending, validation, suggestion_table,
                   review_decision_table, suggestions>>

\* Step 3 up to the end of Pass 1 in generate_suggestions.
Pass1FileSelection ==
    /\ pc = "two_pass_generation"
    /\ job' = _update_job_progress(job, "running", 20, "two_pass_generation", None)
    /\ \E embedding_ok \in BOOLEAN, vector \in SUBSET VectorCandidates,
          fulltext \in SUBSET ChunkCandidates, response \in SelectionResponses,
          docs \in [Files -> StoreContents \cup {None}] :
          LET r == pass_1_file_selection(embedding_ok, vector, fulltext, response, docs)
          IN  /\ files_to_edit' = r.files_to_edit
              /\ cached_content' = r.cached_content
              /\ selection' = r.selection
              /\ relevant_chunks' = r.relevant_chunks
              /\ pc' = IF r.files_to_edit = <<>> THEN "no_files" ELSE "pass_2"
    /\ UNCHANGED <<outsideQuery, generation, detailed_operations, pending, validation,
                   suggestion_table, review_decision_table, suggestions>>

\* What generate_suggestions returns when Pass 1 selected no file.
NoFilesSelected ==
    [status |-> "completed", suggestions_created |-> 0,
     message |-> <<"No files identified for modification">>]

\* generate_suggestions with no file selected, then _run_query_two_pass on
\* its result: a failed result is raised, a result with no suggestions
\* completes the job.
CompleteWithoutFiles ==
    /\ pc = "no_files"
    /\ LET generation_result == NoFilesSelected
       IN  IF generation_result.status = "failed"
           THEN /\ job' = _update_job_completion(
                              _update_job_progress(job, "failed", NoProgress, "failed",
                                                   generation_result.message), 0)
                /\ pc' = "failed"
           ELSE /\ job' = _update_job_completion(
                              _update_job_progress(job, "completed", 100, "completed", None),
                              generation_result.suggestions_created)
                /\ pc' = "completed"
    /\ UNCHANGED <<outsideQuery, selection, relevant_chunks, files_to_edit, cached_content, generation,
                   detailed_operations, pending, validation, suggestion_table,
                   review_decision_table, suggestions>>

\* The content of Pass 2 read again from the store, whatever it holds now.
Refetched(cache, file_path, stored) == stored

\* cached_content.get(file_path): stored is what the content store holds for
\* the file at this moment, which the call does not look at.
cached_content_get(cache, file_path, stored) == cache[file_path]

\* One iteration of the loop of pass_2_detailed_editing.  content is the
\* file content put into the prompt.
Pass2NextFile ==
    /\ pc = "pass_2"
    /\ Len(generation) < Len(files_to_edit)
    /\ \E stored \in StoreContents \cup {None} :
       LET file_path == files_to_edit[Len(generation) + 1]
           file_content == cached_content_get(cached_content, file_path, stored)
       IN  IF file_content = None \/ file_content = <<>>
           THEN /\ generation' = Append(generation,
                    [file |-> file_path, gave |-> "no_content", content |-> None,
                     operations |-> <<>>])
                /\ UNCHANGED detailed_operations
           ELSE \E response \in OperationsResponses :
                   LET file_operations == _generate_operations_for_file(response)
                   IN  /\ Len(detailed_operations) + Len(file_operations) <= MaxOperations
                       /\ detailed_operations' = detailed_operations \o file_operations
                       /\ generation' = Append(generation,
                              [file |-> file_path,
                               content |-> file_content,
                               gave |-> IF response.kind # "list" THEN "failed"
                                        ELSE IF \A i \in 1..Len(file_operations) :
                                                    Schema(file_operations[i])
                                             THEN "operations" ELSE "off_schema",
                               operations |-> file_operations])
    /\ UNCHANGED <<outsideQuery, pc, job, selection, relevant_chunks,
                   files_to_edit, cached_content,
                   pending, validation, suggestion_table, review_decision_table,
                   suggestions>>

\* pass_2_detailed_editing returns; generate_suggestions counts the operations
\* and _run_query_two_pass either completes the job (none) or goes on to
\* step 4.
GenerationReturns ==
    /\ pc = "pass_2"
    /\ Len(generation) = Len(files_to_edit)
    /\ IF detailed_operations = <<>>
       THEN /\ job' = _update_job_completion(
                          _update_job_progress(job, "completed", 100, "completed", None), 0)
            /\ pc' = "completed"
       ELSE /\ job' = _update_job_progress(job, "running", 60, "creating_suggestions", None)
            /\ pc' = "creating_suggestions"
    /\ UNCHANGED <<outsideQuery, selection, relevant_chunks, files_to_edit, cached_content, generation,
                   detailed_operations, pending, validation, suggestion_table,
                   review_decision_table, suggestions>>

\* create_suggestions_from_operations up to its loop: the whole list is
\* validated, then grouped by file.  A parse error ends the call and
\* _run_query_two_pass goes on with no suggestions.
ValidateAndGroup ==
    /\ pc = "creating_suggestions"
    /\ pending' = IF validate_operations(detailed_operations).ok
                  THEN GroupKeys(detailed_operations, {}) ELSE <<>>
    /\ pc' = "create_single"
    /\ UNCHANGED <<outsideQuery, job, selection, relevant_chunks, files_to_edit, cached_content,
                   generation, detailed_operations, validation, suggestion_table,
                   review_decision_table, suggestions>>

\* What get_file_content gives at validation time: a content, None, or the
\* exception the store raised.
StoreError == <<"StoreError">>
Fetches == StoreContents \cup {None, StoreError}

\* A validation that lets every sequence through.
ValidationAlwaysPasses(current_content, file_operations) ==
    IF current_content \in StoreContents THEN "passed" ELSE "skipped"

\* A validation that treats a failed fetch as a failed validation.
ValidationNeedsContent(current_content, file_operations) ==
    IF current_content \in StoreContents
    THEN (IF validate_operations_apply_to_content(current_content, file_operations) = "True"
          THEN "passed" ELSE "failed")
    ELSE "failed"

\* _validate_operations_against_content: "passed", "failed", or "skipped" when
\* the content cannot be fetched (the store raises, or gives None).
_validate_operations_against_content(current_content, file_operations) ==
    LET v == validate_operations_apply_to_content(current_content, file_operations)
    IN  IF current_content = StoreError THEN "skipped"
        ELSE IF v = "AttributeError" THEN "skipped"
        ELSE IF v = "True" THEN "passed"
        ELSE "failed"

\* _create_single_suggestion for the next file of the loop.
CreateSingleSuggestion ==
    /\ pc = "create_single"
    /\ pending # <<>>
    /\ \E current_content \in Fetches, review_write_fails \in BOOLEAN,
          file_record \in BOOLEAN :
          LET file_path == Head(pending)
              file_operations == _group_operations_by_file(detailed_operations, file_path)
              verdict == _validate_operations_against_content(
                             current_content, file_operations)
              suggestion == [id |-> Cardinality(suggestion_table) + 1,
                             file_id |-> file_path,
                             operations_json |-> file_operations,
                             status |-> "pending"]
          IN  /\ validation' =
                     IF file_record
                     THEN [validation EXCEPT ![file_path] =
                              [fetched |-> current_content, operations |-> file_operations,
                               verdict |-> verdict]]
                     ELSE validation
              /\ IF ~file_record \/ verdict = "failed"
                 THEN UNCHANGED <<suggestion_table, review_decision_table, suggestions>>
                 ELSE /\ suggestion_table' = suggestion_table \cup {suggestion}
                      /\ IF review_write_fails
                         THEN UNCHANGED <<review_decision_table, suggestions>>
                         ELSE /\ review_decision_table' = review_decision_table \cup
                                    {[suggestion_id |-> suggestion.id, decision |-> "pending"]}
                              /\ suggestions' = Append(suggestions, suggestion.id)
    /\ pending' = Tail(pending)
    /\ UNCHANGED <<outsideQuery, pc, job, selection, relevant_chunks,
                   files_to_edit, cached_content,
                   generation, detailed_operations>>

\* Step 5: notifications and the completion metadata.
SendNotifications ==
    /\ pc = "create_single"
    /\ pending = <<>>
    /\ job' = _update_job_completion(
                  _update_job_progress(job, "running", 80, "sending_notifications", None),
                  Len(suggestions))
    /\ pc' = "sending_notifications"
    /\ UNCHANGED <<outsideQuery, selection, relevant_chunks, files_to_edit, cached_content, generation,
                   detailed_operations, pending, validation, suggestion_table,
                   review_decision_table, suggestions>>

\* Step 6.
CompleteJob ==
    /\ pc = "sending_notifications"
    /\ job' = _update_job_progress(job, "completed", 100, "completed", None)
    /\ pc' = "completed"
    /\ UNCHANGED <<outsideQuery, selection, relevant_chunks, files_to_edit, cached_content, generation,
                   detailed_operations, pending, validation, suggestion_table,
                   review_decision_table, suggestions>>

\* The except branch of _run_query_two_pass.  What can raise inside its try
\* block is the database connection at the start and the task backend at
\* each stage report; the generation and creation calls catch their own.
BackendError == <<"error">>

QueryFails ==
    /\ pc \notin {"completed", "failed"}
    /\ pc = "pass_2" => Len(generation) = Len(files_to_edit)
    /\ pc = "create_single" => pending = <<>>
    /\ job' = _update_job_completion(
                  _update_job_progress(job, "failed", NoProgress, "failed", BackendError), 0)
    /\ pc' = "failed"
    /\ UNCHANGED <<outsideQuery, selection, relevant_chunks, files_to_edit, cached_content, generation,
                   detailed_operations, pending, validation, suggestion_table,
                   review_decision_table, suggestions>>

QueryNext ==
    \/ StartTask
    \/ InitializeTwoPass
    \/ Pass1FileSelection
    \/ CompleteWithoutFiles
    \/ Pass2NextFile
    \/ GenerationReturns
    \/ ValidateAndGroup
    \/ CreateSingleSuggestion
    \/ SendNotifications
    \/ CompleteJob
    \/ QueryFails

SpecQuery == QueryInit /\ [][QueryNext]_vars

\* ------------------------------------------------------------- the splitter, step by step
\* The characters of the texts split: a letter and a sentence end.
SplitAlphabet == {"a", "."}
SplitTexts == SeqsUpTo(SplitAlphabet, MaxText)

\* The encoding: a byte-pair vocabulary of the single characters and one
\* merged pair, applied greedily from the left.
MergedPairs == {<<"a", "a">>}

RECURSIVE Encode(_)
Encode(text) ==
    IF text = <<>> THEN <<>>
    ELSE IF Len(text) >= 2 /\ SubSeq(text, 1, 2) \in MergedPairs
         THEN <<SubSeq(text, 1, 2)>> \o Encode(SubSeq(text, 3, Len(text)))
         ELSE <<SubSeq(text, 1, 1)>> \o Encode(Tail(text))

RECURSIVE Decode(_)
Decode(toks) == IF toks = <<>> THEN <<>> ELSE Head(toks) \o Decode(Tail(toks))

\* str.rfind(sub): highest index where sub occurs, else -1
StrRFind(s, sub) ==
    LET hits == {i \in 0..(Len(s) - Len(sub)) : MatchAt(s, sub, i)}
    IN  IF hits = {} THEN -1
        ELSE CHOOSE i \in hits : \A j \in hits : i >= j

\* s[:j] for any integer j (a negative j counts from the end)
SliceTo(s, j) ==
    IF j >= 0 THEN Slice(s, 0, j)
    ELSE IF Len(s) + j > 0 THEN Slice(s, 0, Len(s) + j) ELSE <<>>

\* chunk_text[-len(chunk_text)//5:], the floor division applied to the
\* negated length: the last ceil(len/5) characters.
LastPart(chunk_text) ==
    SliceFrom(chunk_text, Len(chunk_text) - ((Len(chunk_text) + 4) \div 5))

sentence_ends == {<<".">>, <<"!">>, <<"?">>, <<LF, LF>>}

\* The rightmost sentence end in last_part, -1 when there is none.
BestBreak(last_part) ==
    LET found == {StrRFind(last_part, e) : e \in sentence_ends} \cup {-1}
    IN  CHOOSE b \in found : \A c \in found : b >= c

\* str.strip()
Whitespace == {" ", LF, CR, LS}
RECURSIVE StripLeft(_)
StripLeft(s) == IF s # <<>> /\ Head(s) \in Whitespace THEN StripLeft(Tail(s)) ELSE s
RECURSIVE StripRight(_)
StripRight(s) ==
    IF s # <<>> /\ s[Len(s)] \in Whitespace THEN StripRight(SubSeq(s, 1, Len(s) - 1)) ELSE s
Strip(s) == StripRight(StripLeft(s))

Min(a, b) == IF a <= b THEN a ELSE b
Max(a, b) == IF a >= b THEN a ELSE b

\* The end of the window that starts at from: start + max_tokens, snapped to
\* a sentence end when the window is not the last one.
WindowEnd(toks, from, window) ==
    LET plain == Min(from + window, Len(toks))
        chunk_text == Decode(SubSeq(toks, from + 1, plain))
        last_part == LastPart(chunk_text)
        best_break == BestBreak(last_part)
        adjusted_end ==
            from + Len(Encode(SliceTo(chunk_text, best_break + 1 - Len(last_part))))
    IN  IF plain < Len(toks) /\ best_break > 0
        THEN Min(adjusted_end, Len(toks))
        ELSE plain

\* The next window starts one overlap step further, and at least one token
\* further, wherever the window ended.
StepOnly(from, end, window, overlap) == Max(from + window - overlap, from + 1)

\* start = max(start + max_tokens - overlap_tokens, end)
NextStart(from, end, window, overlap) == Max(from + window - overlap, end)

SplitInit ==
    /\ \E text \in SplitTexts : tokens = Encode(text)
    /\ max_tokens \in 1..MaxTokens
    /\ overlap_tokens \in 0..MaxOverlap
    /\ start = 0
    /\ chunks = <<>>
    /\ split_pc = "loop"
    /\ ApplierUnused
    /\ QueryIdle
    /\ ChunksIdle
    /\ IndexIdle
    /\ ParseIdle
    /\ ElbowIdle
    /\ MerkleIdle
    /\ RetryIdle
    /\ LinksIdle

\* One iteration of the while loop.
SplitNextWindow ==
    /\ split_pc = "loop"
    /\ start < Len(tokens)
    /\ Len(chunks) < MaxWindows
    /\ LET end == WindowEnd(tokens, start, max_tokens)
       IN  /\ chunks' = Append(chunks,
                  [start |-> start, end |-> end,
                   text |-> Strip(Decode(SubSeq(tokens, start + 1, end)))])
           /\ start' = NextStart(start, end, max_tokens, overlap_tokens)
    /\ UNCHANGED <<tokens, max_tokens, overlap_tokens, split_pc, outsideSplit>>

\* The loop condition fails: return chunks.
SplitReturn ==
    /\ split_pc = "loop"
    /\ start >= Len(tokens)
    /\ split_pc' = "returned"
    /\ UNCHANGED <<tokens, max_tokens, overlap_tokens, start, chunks, outsideSplit>>

SplitNext ==
    \/ SplitNextWindow
    \/ SplitReturn

SpecSplit == SplitInit /\ [][SplitNext]_vars

\* ------------------------------------------------------------- the chunk store, step by step
\* The chunk texts the splitter hands over.
ChunkContents == {<<"x">>, <<"y">>}

\* hashlib.sha256(chunk_content.encode('utf-8')).hexdigest(), taken to be
\* collision-free: the digest names its input.
Sha256(chunk_content) == <<"sha256">> \o chunk_content

\* A lookup that never finds the chunk.
NeverExisting(table, chunk_hash) == FALSE

\* SELECT hash FROM public.chunk WHERE hash = $1 LIMIT 1
ExistingChunk(table, chunk_hash) == \E row \in table : row.hash = chunk_hash

\* A database statement: the table it leaves and whether it raised.
Executed(table) == [table |-> table, raised |-> FALSE]

\* An INSERT without a conflict clause on the table's unique hash.
PlainInsert(table, chunk_hash, chunk_content, embedding) ==
    IF ExistingChunk(table, chunk_hash)
    THEN [table |-> table, raised |-> TRUE]
    ELSE Executed(table \cup {[hash |-> chunk_hash, content |-> chunk_content,
                               embedding |-> embedding]})

\* _store_new_chunk: INSERT ... ON CONFLICT (hash) DO NOTHING, one statement.
_store_new_chunk(table, chunk_hash, chunk_content, embedding) ==
    IF ExistingChunk(table, chunk_hash)
    THEN Executed(table)
    ELSE Executed(table \cup {[hash |-> chunk_hash, content |-> chunk_content,
                               embedding |-> embedding]})

\* Where _process_chunks_for_single_file goes after chunk i.
AfterChunk(job_state) ==
    IF job_state.i + 1 < Len(job_state.chunks) THEN "check" ELSE "links"

\* _process_single_chunk returned chunk data: the caller appends it.
ChunkReturned(job_state) ==
    [job_state EXCEPT
        !.file_chunks = Append(@, [hash |-> Sha256(job_state.chunks[job_state.i + 1]),
                                   chunk_order |-> job_state.i]),
        !.embedding = None,
        !.i = @ + 1,
        !.pc = AfterChunk(job_state)]

\* _process_single_chunk returned None: the chunk is left out.
ChunkSkipped(job_state) ==
    [job_state EXCEPT !.embedding = None, !.i = @ + 1, !.pc = AfterChunk(job_state)]

\* Each job indexes one file.
ChunksInit ==
    /\ chunk_table = {}
    /\ embeddings_generated = {}
    /\ file_chunk_table = {}
    /\ \E first \in SeqsUpTo(ChunkContents, MaxFileChunks) \ {<<>>},
          second \in SeqsUpTo(ChunkContents, MaxFileChunks) \ {<<>>} :
          worker = [w \in Workers |->
                       [NoWork EXCEPT !.chunks = IF w = "w1" THEN first ELSE second,
                                      !.pc = "check"]]
    /\ ApplierUnused
    /\ QueryIdle
    /\ SplitIdle
    /\ IndexIdle
    /\ ParseIdle
    /\ ElbowIdle
    /\ MerkleIdle
    /\ RetryIdle
    /\ LinksIdle

\* _process_single_chunk: the existence check; an existing chunk is returned
\* at once.
CheckExisting(w) ==
    /\ worker[w].pc = "check"
    /\ LET me == worker[w]
           found == ExistingChunk(chunk_table, Sha256(me.chunks[me.i + 1]))
           checked == [me EXCEPT !.existing = Append(@, found)]
       IN  worker' = [worker EXCEPT ![w] =
               IF found THEN ChunkReturned(checked) ELSE [checked EXCEPT !.pc = "embed"]]
    /\ UNCHANGED <<chunk_table, embeddings_generated, file_chunk_table, outsideChunks>>

\* _generate_embedding_for_chunk: the provider gives an embedding, or None
\* and the chunk is given up.
GenerateEmbedding(w) ==
    /\ worker[w].pc = "embed"
    /\ LET me == worker[w]
           call == [worker |-> w, chunk_order |-> me.i, content |-> me.chunks[me.i + 1]]
       IN  \E embedded \in BOOLEAN :
               IF embedded
               THEN /\ embeddings_generated' = embeddings_generated \cup {call}
                    /\ worker' = [worker EXCEPT ![w] =
                           [me EXCEPT !.embedding = call, !.pc = "store"]]
               ELSE /\ worker' = [worker EXCEPT ![w] = ChunkSkipped(me)]
                    /\ UNCHANGED embeddings_generated
    /\ UNCHANGED <<chunk_table, file_chunk_table, outsideChunks>>

\* _store_new_chunk and the return of the chunk data.
StoreNewChunk(w) ==
    /\ worker[w].pc = "store"
    /\ LET me == worker[w]
           chunk_content == me.chunks[me.i + 1]
           done == _store_new_chunk(chunk_table, Sha256(chunk_content), chunk_content,
                                    me.embedding)
       IN  /\ chunk_table' = done.table
           /\ worker' = [worker EXCEPT ![w] =
                  IF done.raised THEN [me EXCEPT !.pc = "raised"] ELSE ChunkReturned(me)]
    /\ UNCHANGED <<embeddings_generated, file_chunk_table, outsideChunks>>

\* _store_chunks_for_file: one upsert per returned chunk, keyed by the file
\* and the chunk_order.
StoreChunksForFile(w) ==
    /\ worker[w].pc = "links"
    /\ LET file_chunks == worker[w].file_chunks
           written == {[file_id |-> w, chunk_order |-> file_chunks[k].chunk_order,
                        chunk_hash |-> file_chunks[k].hash] : k \in 1..Len(file_chunks)}
           replaced == {row \in file_chunk_table :
                           \E new \in written : /\ new.file_id = row.file_id
                                                /\ new.chunk_order = row.chunk_order}
       IN  file_chunk_table' = (file_chunk_table \ replaced) \cup written
    /\ worker' = [worker EXCEPT ![w].pc = "done"]
    /\ UNCHANGED <<chunk_table, embeddings_generated, outsideChunks>>

ChunksNext ==
    \/ \E w \in Workers : CheckExisting(w)
    \/ \E w \in Workers : GenerateEmbedding(w)
    \/ \E w \in Workers : StoreNewChunk(w)
    \/ \E w \in Workers : StoreChunksForFile(w)

SpecChunks == ChunksInit /\ [][ChunksNext]_vars

\* ------------------------------------------------------------- the indexing run, step by step
\* The directory tempfile.mkdtemp returns.
TempDir == <<"doccelerate_index_">>

\* str(e) of what a stage raises; some exceptions have an empty message.
ErrorMessages == {<<"e">>, <<>>}

\* The ValueError of a soft re-index without stored files.
NoFilesFound == <<"Cannot perform soft re-index.">>

\* An update whose missing progress is written as 0 (used to show that the
\* failure update must leave the stored progress alone).
ProgressOrZero(j, status, progress, step, error_msg, updated) ==
    IF ~updated \/ j = NoJob THEN j
    ELSE [j EXCEPT !.status = status,
                   !.progress = IF progress = NoProgress THEN 0 ELSE progress,
                   !.current_step = step,
                   !.error_msg = IF error_msg \in {None, <<>>} THEN @ ELSE error_msg]

\* JobService.update_job_progress (and _update_job_progress of the task
\* module, the same code).  updated is FALSE when the database call raised
\* or found no record: the exception is logged and swallowed.  progress is
\* kept in hundredths; a falsy error_msg is not written.
update_job_progress(j, status, progress, step, error_msg, updated) ==
    IF ~updated \/ j = NoJob THEN j
    ELSE [j EXCEPT !.status = status,
                   !.progress = IF progress = NoProgress THEN @ ELSE progress,
                   !.current_step = step,
                   !.error_msg = IF error_msg \in {None, <<>>} THEN @ ELSE error_msg]

\* The stage every run reports after starting, whatever its mode (used to
\* show that the mode decides the stages).
AlwaysClone(soft) == "cloning"

\* run_indexing: the branch on soft_reindex.
AfterStarting(soft) == IF ~soft THEN "cloning" ELSE "fetching_existing_files"

\* _update_progress: update_state with the step and progress, then the Job.
_update_progress(step, progress, state) ==
    /\ reported' = Append(reported, [step |-> step, progress |-> progress])
    /\ \E updated \in BOOLEAN :
          index_job' = update_job_progress(index_job,
                                           IF state = "SUCCESS" THEN "completed" ELSE "running",
                                           progress, step, None, updated)

\* The work of a stage returns, or raises.
StageEnds(next) ==
    \/ /\ index_pc' = next
       /\ exception' = exception
    \/ \E e \in ErrorMessages :
          /\ index_pc' = "except"
          /\ exception' = e

IndexInit ==
    /\ implementation \in {"orchestrator", "task"}
    /\ soft_reindex \in BOOLEAN
    /\ files_found \in BOOLEAN
    /\ index_pc = "starting"
    /\ index_job = NoJob
    /\ reported = <<>>
    /\ temp_dir = None
    /\ directories = {}
    /\ exception = None
    /\ index_result = "none"
    /\ ApplierUnused
    /\ QueryIdle
    /\ SplitIdle
    /\ ChunksIdle
    /\ ParseIdle
    /\ ElbowIdle
    /\ MerkleIdle
    /\ RetryIdle
    /\ LinksIdle

\* The endpoint, after it dispatched the task: the Job record is created.
CreateJob ==
    /\ index_job = NoJob
    /\ index_job' = [status |-> "pending", progress |-> 0, current_step |-> "none",
                     error_msg |-> None]
    /\ UNCHANGED <<outsideIndex, implementation, soft_reindex, files_found, index_pc, reported,
                   temp_dir, directories, exception, index_result>>

\* Step 1.  The task then connects to the database, which can raise.
Starting ==
    /\ index_pc = "starting"
    /\ _update_progress("starting", 0, "PROGRESS")
    /\ IF implementation = "task"
         THEN StageEnds(AfterStarting(soft_reindex))
         ELSE index_pc' = AfterStarting(soft_reindex) /\ exception' = exception
    /\ UNCHANGED <<outsideIndex, implementation, soft_reindex, files_found, temp_dir,
                   directories, index_result>>

\* Hard mode: mkdtemp, then the clone.  The task keeps the directory in the
\* temp_dir of the frame with the finally block; the orchestrator keeps it in
\* a local of _process_hard_reindex.
Cloning ==
    /\ index_pc = "cloning"
    /\ directories' = directories \cup {TempDir}
    /\ temp_dir' = IF implementation = "task" THEN TempDir ELSE temp_dir
    /\ _update_progress("cloning", 10, "PROGRESS")
    /\ StageEnds("processing_files")
    /\ UNCHANGED <<outsideIndex, implementation, soft_reindex, files_found, index_result>>

\* Hard mode: the files are read from the clone.  When it returns, the
\* orchestrator's run_indexing receives temp_dir.
ProcessingFiles ==
    /\ index_pc = "processing_files"
    /\ _update_progress("processing_files", 30, "PROGRESS")
    /\ \/ /\ index_pc' = "generating_embeddings"
          /\ exception' = exception
          /\ temp_dir' = TempDir
       \/ \E e \in ErrorMessages :
             /\ index_pc' = "except"
             /\ exception' = e
             /\ temp_dir' = temp_dir
    /\ UNCHANGED <<outsideIndex, implementation, soft_reindex, files_found, directories,
                   index_result>>

\* Soft mode: the stored File records are read; none is a ValueError.
FetchingExistingFiles ==
    /\ index_pc = "fetching_existing_files"
    /\ _update_progress("fetching_existing_files", 20, "PROGRESS")
    /\ IF files_found
         THEN StageEnds("files_processed")
         ELSE index_pc' = "except" /\ exception' = NoFilesFound
    /\ UNCHANGED <<outsideIndex, implementation, soft_reindex, files_found, temp_dir,
                   directories, index_result>>

\* Soft mode: the contents have been fetched.
FilesProcessed ==
    /\ index_pc = "files_processed"
    /\ _update_progress("files_processed", 40, "PROGRESS")
    /\ index_pc' = "generating_embeddings"
    /\ UNCHANGED <<outsideIndex, implementation, soft_reindex, files_found, temp_dir,
                   directories, exception, index_result>>

\* Step 3.
GeneratingEmbeddings ==
    /\ index_pc = "generating_embeddings"
    /\ _update_progress("generating_embeddings", 60, "PROGRESS")
    /\ StageEnds("storing_data")
    /\ UNCHANGED <<outsideIndex, implementation, soft_reindex, files_found, temp_dir,
                   directories, index_result>>

\* Step 4.
StoringData ==
    /\ index_pc = "storing_data"
    /\ _update_progress("storing_data", 80, "PROGRESS")
    /\ StageEnds("merkle_tree")
    /\ UNCHANGED <<outsideIndex, implementation, soft_reindex, files_found, temp_dir,
                   directories, index_result>>

\* Steps 5 and 6: the Merkle tree, the commit SHA, the repository's sync info.
MerkleTree ==
    /\ index_pc = "merkle_tree"
    /\ _update_progress("merkle_tree", 90, "PROGRESS")
    /\ StageEnds("notifying")
    /\ UNCHANGED <<outsideIndex, implementation, soft_reindex, files_found, temp_dir,
                   directories, index_result>>

\* Step 7.
Notifying ==
    /\ index_pc = "notifying"
    /\ _update_progress("notifying", 95, "PROGRESS")
    /\ index_pc' = "completed"
    /\ UNCHANGED <<outsideIndex, implementation, soft_reindex, files_found, temp_dir,
                   directories, exception, index_result>>

\* Complete: the last report, and the return of the result.
Completed ==
    /\ index_pc = "completed"
    /\ _update_progress("completed", 100, "SUCCESS")
    /\ index_result' = "completed"
    /\ index_pc' = "finally"
    /\ UNCHANGED <<outsideIndex, implementation, soft_reindex, files_found, temp_dir,
                   directories, exception>>

\* except Exception as e: the failure is written to the Job, the failure
\* structure returned.
IndexExcept ==
    /\ index_pc = "except"
    /\ \E updated \in BOOLEAN :
          index_job' = update_job_progress(index_job, "failed", NoProgress, "failed",
                                           exception, updated)
    /\ index_result' = "failed"
    /\ index_pc' = "finally"
    /\ UNCHANGED <<outsideIndex, implementation, soft_reindex, files_found, reported, temp_dir,
                   directories, exception>>

\* finally: the directory temp_dir names, if any, is removed.
IndexFinally ==
    /\ index_pc = "finally"
    /\ directories' = IF temp_dir # None /\ temp_dir \in directories
                        THEN directories \ {temp_dir}
                        ELSE directories
    /\ index_pc' = "returned"
    /\ UNCHANGED <<outsideIndex, implementation, soft_reindex, files_found, index_job, reported,
                   temp_dir, exception, index_result>>

IndexNext ==
    \/ CreateJob
    \/ Starting
    \/ Cloning
    \/ ProcessingFiles
    \/ FetchingExistingFiles
    \/ FilesProcessed
    \/ GeneratingEmbeddings
    \/ StoringData
    \/ MerkleTree
    \/ Notifying
    \/ Completed
    \/ IndexExcept
    \/ IndexFinally

SpecIndex == IndexInit /\ [][IndexNext]_vars

\* ------------------------------------------------------------- operations JSON, step by step
MaxBatch == 2      \* most operations in one response

\* JSON text is a sequence of symbols: the characters of the string values,
\* and one symbol each for a bracket, a comma, a quote, an escape sequence,
\* null, a file name, an operation name, a non-string value and a fence.  An
\* object is written by position: file, op, find, replace, insert, until.
Quote == "quote"
Fence == "fence"    \* three backticks
EscapedLF == "\\n"
EscapedCR == "\\r"
EscapedLS == "\\u2028"
Atoms == Files \cup OperationType \cup {"rename"}

\* The characters of a string value as json.dumps writes them: control
\* characters escaped always, U+2028 only under ensure_ascii.
RECURSIVE Escape(_, _)
Escape(text, ensure_ascii) ==
    IF text = <<>> THEN <<>>
    ELSE LET c == Head(text)
         IN  << IF c = LF THEN EscapedLF
                ELSE IF c = CR THEN EscapedCR
                ELSE IF c = LS /\ ensure_ascii THEN EscapedLS
                ELSE c >> \o Escape(Tail(text), ensure_ascii)

DumpsText(value, ensure_ascii) ==
    IF value = None THEN <<"null">>
    ELSE IF value = NotAString THEN <<"[]">>
    ELSE <<Quote>> \o Escape(value, ensure_ascii) \o <<Quote>>

DumpsAtom(value) == IF value = "None" THEN <<"null">> ELSE <<value>>

DumpsOperation(e, ensure_ascii) ==
    <<"{">> \o DumpsAtom(e.file) \o <<",", " ">> \o DumpsAtom(e.op)
        \o <<",", " ">> \o DumpsText(e.find, ensure_ascii)
        \o <<",", " ">> \o DumpsText(e.replace, ensure_ascii)
        \o <<",", " ">> \o DumpsText(e.insert, ensure_ascii)
        \o <<",", " ">> \o DumpsText(e.until, ensure_ascii) \o <<"}">>

RECURSIVE DumpsItems(_, _)
DumpsItems(items, ensure_ascii) ==
    IF items = <<>> THEN <<>>
    ELSE DumpsOperation(Head(items), ensure_ascii)
            \o (IF Len(items) = 1 THEN <<>> ELSE <<",", " ">>)
            \o DumpsItems(Tail(items), ensure_ascii)

\* json.dumps of a list of operations.
Dumps(items, ensure_ascii) == <<"[">> \o DumpsItems(items, ensure_ascii) \o <<"]">>

\* json.loads.  Each reader gives ok, the value read and the index after it.
JsonWhitespace == {" ", LF, CR}
Unread == [ok |-> FALSE, value |-> None, next |-> 0]

RECURSIVE SkipWhitespace(_, _)
SkipWhitespace(text, i) ==
    IF 0 < i /\ i <= Len(text) /\ text[i] \in JsonWhitespace
    THEN SkipWhitespace(text, i + 1) ELSE i

\* The characters after an opening quote; a raw control character or the end
\* of the text inside a string is a JSONDecodeError.
RECURSIVE ReadChars(_, _, _)
ReadChars(text, i, acc) ==
    IF i > Len(text) \/ text[i] \in {LF, CR} THEN Unread
    ELSE IF text[i] = Quote THEN [ok |-> TRUE, value |-> acc, next |-> i + 1]
    ELSE ReadChars(text, i + 1,
                   Append(acc, IF text[i] = EscapedLF THEN LF
                               ELSE IF text[i] = EscapedCR THEN CR
                               ELSE IF text[i] = EscapedLS THEN LS
                               ELSE text[i]))

ReadText(text, i) ==
    IF i = 0 \/ i > Len(text) THEN Unread
    ELSE IF text[i] = "null" THEN [ok |-> TRUE, value |-> None, next |-> i + 1]
    ELSE IF text[i] = "[]" THEN [ok |-> TRUE, value |-> NotAString, next |-> i + 1]
    ELSE IF text[i] = Quote THEN ReadChars(text, i + 1, <<>>)
    ELSE Unread

ReadAtom(text, i) ==
    IF i = 0 \/ i > Len(text) THEN [ok |-> FALSE, value |-> "None", next |-> 0]
    ELSE IF text[i] = "null" THEN [ok |-> TRUE, value |-> "None", next |-> i + 1]
    ELSE IF text[i] \in Atoms THEN [ok |-> TRUE, value |-> text[i], next |-> i + 1]
    ELSE [ok |-> FALSE, value |-> "None", next |-> 0]

\* The index after a comma and the whitespace around it, 0 without a comma.
AfterComma(text, i) ==
    LET at == SkipWhitespace(text, i)
    IN  IF i # 0 /\ at <= Len(text) /\ text[at] = "," THEN SkipWhitespace(text, at + 1) ELSE 0

ReadOperation(text, i) ==
    IF i > Len(text) \/ text[i] # "{" THEN [ok |-> FALSE, next |-> 0]
    ELSE LET file == ReadAtom(text, SkipWhitespace(text, i + 1))
             op == ReadAtom(text, AfterComma(text, file.next))
             find == ReadText(text, AfterComma(text, op.next))
             replace == ReadText(text, AfterComma(text, find.next))
             insert == ReadText(text, AfterComma(text, replace.next))
             until == ReadText(text, AfterComma(text, insert.next))
             close == SkipWhitespace(text, until.next)
         IN  IF /\ file.ok
                /\ op.ok /\ find.ok /\ replace.ok /\ insert.ok /\ until.ok
                /\ close <= Len(text) /\ text[close] = "}"
             THEN [ok |-> TRUE, next |-> close + 1,
                   value |-> [file |-> file.value, op |-> op.value, find |-> find.value,
                              replace |-> replace.value, insert |-> insert.value,
                              until |-> until.value]]
             ELSE [ok |-> FALSE, next |-> 0]

\* The elements of a list from index i on, up to the closing bracket.
RECURSIVE ReadItems(_, _, _)
ReadItems(text, i, acc) ==
    LET e == ReadOperation(text, i)
        after == SkipWhitespace(text, e.next)
    IN  IF ~e.ok \/ after > Len(text) THEN NotJson
        ELSE IF text[after] = "]"
             THEN (IF SkipWhitespace(text, after + 1) > Len(text)
                   THEN JsonList(Append(acc, e.value)) ELSE NotJson)
        ELSE IF AfterComma(text, after) = 0 THEN NotJson
        ELSE ReadItems(text, AfterComma(text, after), Append(acc, e.value))

Loads(text) ==
    LET open == SkipWhitespace(text, 1)
        first == SkipWhitespace(text, open + 1)
    IN  IF open > Len(text) \/ text[open] # "[" \/ first > Len(text) THEN NotJson
        ELSE IF text[first] = "]"
             THEN (IF SkipWhitespace(text, first + 1) > Len(text) THEN JsonList(<<>>) ELSE NotJson)
        ELSE ReadItems(text, first, <<>>)

\* parse_operations_json up to json.loads: strip(), and for a response that
\* starts with a fence, the lines without the first and the last.
CleanedResponse(response_text) ==
    LET stripped == Strip(response_text)
        lines == SplitLines(stripped)
    IN  IF MatchAt(stripped, <<Fence>>, 0)
        THEN JoinLines(SubSeq(lines, 2, Len(lines) - 1))
        ELSE stripped

\* The operations a response is written from: valid ones of each kind, one
\* on a second file, ones that hold a line break, and ones off the schema
\* in one field each.
Element(file, op, find, replace, insert, until) ==
    [file |-> file, op |-> op, find |-> find, replace |-> replace, insert |-> insert,
     until |-> until]
ValidElements ==
    {ReplaceAB("f1"), ReplaceAB("f2"),
     Operation("f1", INSERT_AFTER, <<LS>>, <<"a">>),
     Operation("f1", INSERT_BEFORE, <<"a">>, <<LF>>),
     Operation("f1", DELETE_BLOCK, <<"a">>, <<"b">>)}
InvalidElements ==
    {Element(NoFile, REPLACE, <<"a">>, <<"b">>, None, None),
     Element("f1", "rename", <<"a">>, <<"b">>, None, None),
     Element("f1", "None", <<"a">>, <<"b">>, None, None),
     Element("f1", REPLACE, None, <<"b">>, None, None),
     Malformed,
     Element("f1", INSERT_AFTER, <<"a">>, <<"b">>, None, None),
     Element("f1", INSERT_BEFORE, <<"a">>, None, None, <<"b">>),
     Element("f1", DELETE_BLOCK, <<"a">>, None, <<"b">>, None),
     Element("f1", REPLACE, <<"a">>, <<"b">>, None, NotAString)}
Batches == SeqsUpTo(ValidElements \cup InvalidElements, MaxBatch)

\* A response: the JSON text of the batch, with U+2028 escaped or not, bare
\* or between a fence line with json and a closing fence line.
Response(items, ensure_ascii, fenced) ==
    IF fenced
    THEN <<Fence, "json", LF>> \o Dumps(items, ensure_ascii) \o <<LF, Fence>>
    ELSE Dumps(items, ensure_ascii)

ParseInit ==
    /\ llm_operations \in Batches
    /\ \E ensure_ascii \in BOOLEAN, fenced \in BOOLEAN :
          raw_response = Response(llm_operations, ensure_ascii, fenced)
    /\ cleaned_response = <<>>
    /\ parse_pc = "clean"
    /\ parsed_json = ParseError
    /\ validated = ParseError
    /\ stored_json = [f \in Files |-> None]
    /\ ApplierUnused
    /\ QueryIdle
    /\ SplitIdle
    /\ ChunksIdle
    /\ IndexIdle
    /\ ElbowIdle
    /\ MerkleIdle
    /\ RetryIdle
    /\ LinksIdle

\* OperationJSONParser.parse_operations_json: the response is stripped and
\* taken out of its fence.
CleanResponse ==
    /\ parse_pc = "clean"
    /\ cleaned_response' = CleanedResponse(raw_response)
    /\ parse_pc' = "parse"
    /\ UNCHANGED <<outsideParse, llm_operations, raw_response, parsed_json, validated,
                   stored_json>>

\* OperationJSONParser.parse_operations_json: json.loads and the list check.
ParseResponse ==
    /\ parse_pc = "parse"
    /\ parsed_json' = parse_operations_json(Loads(cleaned_response))
    /\ parse_pc' = IF parsed_json'.ok THEN "validate" ELSE "failed"
    /\ UNCHANGED <<outsideParse, llm_operations, raw_response, cleaned_response, validated,
                   stored_json>>

\* create_suggestions_from_operations: the validation of the batch.
ValidateOperations ==
    /\ parse_pc = "validate"
    /\ validated' = validate_operations(parsed_json.text)
    /\ parse_pc' = IF validated'.ok THEN "store" ELSE "failed"
    /\ UNCHANGED <<outsideParse, llm_operations, raw_response, cleaned_response, parsed_json,
                   stored_json>>

\* The operations grouped by file, and each group written as the
\* operations_json of the file's suggestion.
StoreOperationsJson ==
    /\ parse_pc = "store"
    /\ stored_json' =
          [f \in Files |->
              LET file_operations == _group_operations_by_file(validated.text, f)
              IN  IF file_operations = <<>> THEN None ELSE Dumps(file_operations, TRUE)]
    /\ parse_pc' = "stored"
    /\ UNCHANGED <<outsideParse, llm_operations, raw_response, cleaned_response, parsed_json,
                   validated>>

ParseNext ==
    \/ CleanResponse
    \/ ParseResponse
    \/ ValidateOperations
    \/ StoreOperationsJson

SpecParse == ParseInit /\ [][ParseNext]_vars

\* ------------------------------------------------------------- the elbow analyzer, step by step
\* Scores are hundredths: 15 is the similarity 0.15.  The detectors compare
\* in exact arithmetic.
MaxScores == 5     \* longest similarity_scores
MaxMinDocs == 3    \* largest min_docs
MaxDocs == 5       \* largest max_docs

SignificanceThreshold == 15    \* significance_threshold = 0.15
Sensitivity == 2               \* sensitivity = 2.0
DropThreshold == 30            \* drop_threshold = 0.3
UniformRange == 10             \* score_range < 0.1

ScoreValues == {5, 10, 50, 55, 60, 90}

\* "similarity scores in descending order"
Descending(scores) == \A i \in 1..(Len(scores) - 1) : scores[i] >= scores[i + 1]

ScoreLists == {q \in SeqsUpTo(ScoreValues, MaxScores) : Descending(q)}

Abs(x) == IF x < 0 THEN 0 - x ELSE x

RECURSIVE SumSeq(_)
SumSeq(q) == IF q = <<>> THEN 0 ELSE Head(q) + SumSeq(Tail(q))

Least(S) == CHOOSE i \in S : \A k \in S : i <= k

\* The guard of the safety floor reduced to the empty list.
EmptyOnly(scores, least) == scores = <<>>

\* if not similarity_scores or len(similarity_scores) < self.min_docs
InsufficientData(scores, least) == scores = <<>> \/ Len(scores) < least

\* similarity_scores[:self.max_docs]
Truncated(scores, most) == IF Len(scores) > most THEN SubSeq(scores, 1, most) ELSE scores

\* The scores at or above the threshold, or the first min_docs raw scores
\* when fewer than min_docs are.
RelevantScores(scores, least) ==
    LET Significant(score) == score >= SignificanceThreshold
        above == SelectSeq(scores, Significant)
    IN  IF Len(above) < least
        THEN IF Len(scores) >= least THEN SubSeq(scores, 1, least) ELSE scores
        ELSE above

\* _point_to_line_distance of point i (0-based) times the length of the line
\* from the first to the last point, which is the same for every point of
\* one call and not zero (the line spans at least two indices).
PointToLine(scores, i) ==
    Abs((Len(scores) - 1) * (scores[i + 1] - scores[1])
            - i * (scores[Len(scores)] - scores[1]))

\* A knee detector that reports no knee (0) when every inner point lies on
\* the line from the first to the last point (used to show that the ensemble
\* depends on the detector answering for every list of three or more).
FlatHasNoKnee(scores) ==
    IF Len(scores) < 3 THEN 0
    ELSE LET inner == 1..(Len(scores) - 2)
             knee == CHOOSE i \in inner : \A k \in inner :
                        \/ PointToLine(scores, i) > PointToLine(scores, k)
                        \/ PointToLine(scores, i) = PointToLine(scores, k) /\ i <= k
         IN  IF PointToLine(scores, knee) = 0 THEN 0 ELSE knee + 1

\* argmax takes the first of equal distances.
_detect_knee_point(scores) ==
    IF Len(scores) < 3 THEN 0
    ELSE LET inner == 1..(Len(scores) - 2)
             knee == CHOOSE i \in inner : \A k \in inner :
                        \/ PointToLine(scores, i) > PointToLine(scores, k)
                        \/ PointToLine(scores, i) = PointToLine(scores, k) /\ i <= k
         IN  knee + 1

\* diff > mean + sensitivity * std over the m second differences, multiplied
\* through by m and squared: m * diff - sum > sensitivity * sqrt(m * squares - sum^2).
_detect_rate_change_elbow(scores) ==
    IF Len(scores) < 4 THEN 0
    ELSE LET n == Len(scores)
             first_diffs == [i \in 1..(n - 1) |-> scores[i] - scores[i + 1]]
             second_diffs == [i \in 1..(n - 2) |-> first_diffs[i] - first_diffs[i + 1]]
             m == n - 2
             total == SumSeq(second_diffs)
             squares == SumSeq([i \in 1..m |-> second_diffs[i] * second_diffs[i]])
             variance == m * squares - total * total
             Excess(i) == m * second_diffs[i] - total
             exceeding == {i \in 1..m : /\ Excess(i) > 0
                                        /\ Excess(i) * Excess(i)
                                              > Sensitivity * Sensitivity * variance}
         IN  IF variance = 0 \/ exceeding = {} THEN 0
             ELSE (Least(exceeding) - 1) + 2

_detect_percentage_drop_elbow(scores) ==
    IF Len(scores) < 2 THEN 0
    ELSE LET drops == {i \in 1..(Len(scores) - 1) :
                          /\ scores[1] > 0
                          /\ 100 * (scores[1] - scores[i + 1]) >= DropThreshold * scores[1]}
         IN  IF drops = {} THEN 0 ELSE Least(drops)

\* The detectors that fired, in the order they are tried.
methods_results(scores) ==
    LET Fired(method) == method.point > 0
    IN  SelectSeq(<<[name |-> "knee_detection", point |-> _detect_knee_point(scores)],
                    [name |-> "rate_change", point |-> _detect_rate_change_elbow(scores)],
                    [name |-> "percentage_drop",
                     point |-> _detect_percentage_drop_elbow(scores)]>>, Fired)

\* int(np.median(all_points)) of one, two or three ranks
Median(methods) ==
    LET all_points == [i \in 1..Len(methods) |-> methods[i].point]
        highest == CHOOSE p \in {all_points[i] : i \in 1..Len(methods)} :
                      \A i \in 1..Len(methods) : p >= all_points[i]
        lowest == CHOOSE p \in {all_points[i] : i \in 1..Len(methods)} :
                      \A i \in 1..Len(methods) : p <= all_points[i]
    IN  IF Len(methods) = 1 THEN all_points[1]
        ELSE IF Len(methods) = 2 THEN (all_points[1] + all_points[2]) \div 2
        ELSE SumSeq(all_points) - highest - lowest

\* The count of the ensemble left as the median, without the bounds.
Unclamped(point, relevant, least) == point

\* max(self.min_docs, min(optimal_point, len(relevant_scores)))
optimal_point(point, relevant, least) == Max(least, Min(point, Len(relevant)))

_adaptive_threshold_fallback(scores, least, most) ==
    IF scores = <<>> THEN least
    ELSE IF Len(scores) >= 5 /\ scores[1] - scores[Len(scores)] < UniformRange
         THEN Min(Len(scores), most \div 2)
         ELSE Min(Len(scores), Max(least, Len(scores) \div 3))

\* An analyzer with 1 <= min_docs <= max_docs is handed a descending list.
ElbowInit ==
    /\ similarity_scores \in ScoreLists
    /\ min_docs \in 1..MaxMinDocs
    /\ max_docs \in 1..MaxDocs
    /\ min_docs <= max_docs
    /\ relevant_scores = <<>>
    /\ elbow_pc = "filter"
    /\ elbow_result = NoElbow
    /\ ApplierUnused
    /\ QueryIdle
    /\ SplitIdle
    /\ ChunksIdle
    /\ IndexIdle
    /\ ParseIdle
    /\ MerkleIdle
    /\ RetryIdle
    /\ LinksIdle

\* find_elbow_point, lines 43-45
FallbackMin ==
    /\ elbow_pc = "filter"
    /\ InsufficientData(similarity_scores, min_docs)
    /\ elbow_result' = [count |-> min_docs, method |-> "fallback_min"]
    /\ elbow_pc' = "returned"
    /\ UNCHANGED <<similarity_scores, min_docs, max_docs, relevant_scores>>
    /\ UNCHANGED outsideElbow

\* find_elbow_point, lines 47-57
FilterScores ==
    /\ elbow_pc = "filter"
    /\ ~InsufficientData(similarity_scores, min_docs)
    /\ relevant_scores' = RelevantScores(Truncated(similarity_scores, max_docs), min_docs)
    /\ IF Len(relevant_scores') <= min_docs
       THEN /\ elbow_result' = [count |-> Len(relevant_scores'),
                                method |-> "threshold_filter"]
            /\ elbow_pc' = "returned"
       ELSE /\ elbow_result' = elbow_result
            /\ elbow_pc' = "detect"
    /\ UNCHANGED <<similarity_scores, min_docs, max_docs>>
    /\ UNCHANGED outsideElbow

\* find_elbow_point, lines 59-98
Ensemble ==
    /\ elbow_pc = "detect"
    /\ methods_results(relevant_scores) # <<>>
    /\ elbow_result' = [count |-> optimal_point(Median(methods_results(relevant_scores)),
                                                relevant_scores, min_docs),
                        method |-> "ensemble"]
    /\ elbow_pc' = "returned"
    /\ UNCHANGED <<similarity_scores, min_docs, max_docs, relevant_scores>>
    /\ UNCHANGED outsideElbow

\* find_elbow_point, lines 100-103
AdaptiveFallback ==
    /\ elbow_pc = "detect"
    /\ methods_results(relevant_scores) = <<>>
    /\ elbow_result' = [count |-> _adaptive_threshold_fallback(relevant_scores, min_docs,
                                                               max_docs),
                        method |-> "adaptive_fallback"]
    /\ elbow_pc' = "returned"
    /\ UNCHANGED <<similarity_scores, min_docs, max_docs, relevant_scores>>
    /\ UNCHANGED outsideElbow

ElbowNext == FallbackMin \/ FilterScores \/ Ensemble \/ AdaptiveFallback

SpecElbow == ElbowInit /\ [][ElbowNext]_vars

\* ------------------------------------------------------------- the Merkle root, step by step
MaxFiles == 2      \* most files of one repository state

\* Relative paths of documentation files; a file name may hold a colon.
Paths == {<<"a">>, <<"b">>, <<"a", ":", "0", "b">>}

\* Hex digests of file contents, of one fixed length (here one digit).
Digests == {<<"0">>, <<"1">>}

FileData == [path : Paths, content_hash : Digests]

\* The files found in a repository, in the order the walk met them.
FileLists ==
    {q \in SeqsUpTo(FileData, MaxFiles) :
        \A i, j \in 1..Len(q) : q[i].path = q[j].path => i = j}

CodePoint(c) ==
    CASE c = "0" -> 48
      [] c = "1" -> 49
      [] c = ":" -> 58
      [] c = "a" -> 97
      [] c = "b" -> 98

\* str < str
RECURSIVE TextLess(_, _)
TextLess(s, t) ==
    IF t = <<>> THEN FALSE
    ELSE IF s = <<>> THEN TRUE
    ELSE IF Head(s) = Head(t) THEN TextLess(Tail(s), Tail(t))
    ELSE CodePoint(Head(s)) < CodePoint(Head(t))

\* (path, content_hash) < (path, content_hash)
TupleLess(x, y) ==
    \/ TextLess(x.path, y.path)
    \/ x.path = y.path /\ TextLess(x.content_hash, y.content_hash)

\* The list as it came, without the sort.
Unsorted(list) == list

RECURSIVE sorted(_)
sorted(list) ==
    IF list = <<>> THEN <<>>
    ELSE LET first == CHOOSE i \in 1..Len(list) :
                         \A k \in 1..Len(list) : ~TupleLess(list[k], list[i])
         IN  <<list[first]>>
                \o sorted(SubSeq(list, 1, first - 1) \o SubSeq(list, first + 1, Len(list)))

\* ''.join([f"{path}:{hash}" for path, hash in file_hashes])
RECURSIVE Combined(_)
Combined(file_hashes) ==
    IF file_hashes = <<>> THEN <<>>
    ELSE Head(file_hashes).path \o <<":">> \o Head(file_hashes).content_hash
            \o Combined(Tail(file_hashes))

_calculate_root_hash(files) == Sha256(Combined(sorted(files)))

MerkleInit ==
    /\ files_data \in [RepoStates -> FileLists]
    /\ root_hash = [r \in RepoStates |-> None]
    /\ merkle_pc = [r \in RepoStates |-> "collected"]
    /\ ApplierUnused
    /\ QueryIdle
    /\ SplitIdle
    /\ ChunksIdle
    /\ IndexIdle
    /\ ParseIdle
    /\ ElbowIdle
    /\ RetryIdle
    /\ LinksIdle

CalculateRootHash(r) ==
    /\ merkle_pc[r] = "collected"
    /\ root_hash' = [root_hash EXCEPT ![r] = _calculate_root_hash(files_data[r])]
    /\ merkle_pc' = [merkle_pc EXCEPT ![r] = "calculated"]
    /\ UNCHANGED files_data
    /\ UNCHANGED outsideMerkle

MerkleNext == \E r \in RepoStates : CalculateRootHash(r)

SpecMerkle == MerkleInit /\ [][MerkleNext]_vars

\* ------------------------------------------------------------- the embedding retry, step by step
MaxRetries == 3    \* largest max_retries

\* What the provider does with one embeddings.create call.
ProviderErrors == {"rate_limit", "timeout", "api_error"}
ProviderOutcomes == {"embedding"} \cup ProviderErrors

EmbedTexts == {"text", "blank"}

Vector == <<"vector">>

\* generate_embedding calls the provider unless the text is blank.
CallsProvider(text) == text # "blank"

\* generate_embedding: a blank text and every provider exception end in
\* return None; nothing is raised to the caller.
generate_embedding(text, provider) ==
    IF ~CallsProvider(text) THEN "none"
    ELSE IF provider = "embedding" THEN "embedding"
    ELSE "none"

\* The seconds the retry loop sleeps after an attempt: 2 ** attempt in its
\* except branch unless the attempt was the last, nothing otherwise.
Backoff(ended, n, retries) ==
    IF ended = "raised" /\ n # retries THEN 2 ^ n ELSE 0

Called(n, provider) == [kind |-> "call", attempt |-> n, detail |-> provider, seconds |-> 0]
Slept(n, s) == [kind |-> "sleep", attempt |-> n, detail |-> "backoff", seconds |-> s]

\* The log after attempt n whose generate_embedding came to the end named by ended.
LogAfter(log, text, provider, ended, n, retries) ==
    LET called == IF CallsProvider(text) THEN Append(log, Called(n, provider)) ELSE log
    IN  IF Backoff(ended, n, retries) > 0
        THEN Append(called, Slept(n, Backoff(ended, n, retries)))
        ELSE called

RetryInit ==
    /\ embed_text \in EmbedTexts
    /\ max_retries \in 0..MaxRetries
    /\ attempt = 0
    /\ embed_pc = "loop"
    /\ provider_log = <<>>
    /\ retry_result = None
    /\ ApplierUnused
    /\ QueryIdle
    /\ SplitIdle
    /\ ChunksIdle
    /\ IndexIdle
    /\ ParseIdle
    /\ ElbowIdle
    /\ MerkleIdle
    /\ LinksIdle

\* One iteration that returns the embedding (lines 189-191).
AttemptReturnsEmbedding ==
    /\ embed_pc = "loop"
    /\ attempt <= max_retries
    /\ generate_embedding(embed_text, "embedding") = "embedding"
    /\ provider_log' = LogAfter(provider_log, embed_text, "embedding", "embedding",
                                attempt, max_retries)
    /\ retry_result' = Vector
    /\ embed_pc' = "returned"
    /\ UNCHANGED <<embed_text, max_retries, attempt>>
    /\ UNCHANGED outsideRetry

\* One iteration whose generate_embedding returned None (lines 189-190): the
\* loop goes on to the next attempt.
AttemptReturnsNone ==
    /\ embed_pc = "loop"
    /\ attempt <= max_retries
    /\ \E provider \in ProviderOutcomes :
          /\ CallsProvider(embed_text) \/ provider = "embedding"
          /\ generate_embedding(embed_text, provider) = "none"
          /\ provider_log' = LogAfter(provider_log, embed_text, provider,
                                      generate_embedding(embed_text, provider),
                                      attempt, max_retries)
    /\ attempt' = attempt + 1
    /\ UNCHANGED <<embed_text, max_retries, embed_pc, retry_result>>
    /\ UNCHANGED outsideRetry

\* The loop is exhausted: return None (line 199).
RetryExhausted ==
    /\ embed_pc = "loop"
    /\ attempt > max_retries
    /\ retry_result' = None
    /\ embed_pc' = "returned"
    /\ UNCHANGED <<embed_text, max_retries, attempt, provider_log>>
    /\ UNCHANGED outsideRetry

RetryNext == AttemptReturnsEmbedding \/ AttemptReturnsNone \/ RetryExhausted

SpecRetry == RetryInit /\ [][RetryNext]_vars

\* ------------------------------------------------------------- file-chunk links, step by step
MaxRuns == 2       \* indexing runs followed

Repos == {"r1", "r2"}

\* Both repositories hold a file of this path.
SharedPath == "f1"

\* The id of the file record of a repository and path: the table is unique
\* on (repo_id, path).
FileId(repo_id, path) == <<repo_id, path>>

\* prisma.file.upsert(where repo_id_path): the record is created when absent.
UpsertFile(table, repo_id, path) ==
    table \cup {[id |-> FileId(repo_id, path), repo_id |-> repo_id, path |-> path]}

\* The records find_first can return.  _store_data asks for repo_id and path,
\* DatabaseService._store_chunks_for_file for the path alone; without an
\* order the database may return any record that matches.
FileRecords(table, store, repo_id, path) ==
    IF store = "task"
    THEN {record \in table : record.repo_id = repo_id /\ record.path = path}
    ELSE {record \in table : record.path = path}

\* The links of one file for its chunks, in order from 0.
LinksFor(file_id, chunk_list) ==
    {[file_id |-> file_id, chunk_order |-> k - 1, chunk_hash |-> Sha256(chunk_list[k])] :
        k \in 1..Len(chunk_list)}

\* prisma.file_chunk.upsert(where file_id_chunk_order) for every chunk: a row
\* of the same file and chunk_order is overwritten, every other row stays.
UpsertLinks(table, file_id, chunk_list) ==
    {row \in table : ~\E new \in LinksFor(file_id, chunk_list) :
                         /\ new.file_id = row.file_id
                         /\ new.chunk_order = row.chunk_order}
        \cup LinksFor(file_id, chunk_list)

LinksInit ==
    /\ LinksIdle
    /\ ApplierUnused
    /\ QueryIdle
    /\ SplitIdle
    /\ ChunksIdle
    /\ IndexIdle
    /\ ParseIdle
    /\ ElbowIdle
    /\ MerkleIdle
    /\ RetryIdle

\* An indexing run of a repository has processed the file and its chunks
\* and comes to store them.
StartStoring ==
    /\ link_run.pc \in {"idle", "done"}
    /\ runs_started < MaxRuns
    /\ \E repo_id \in Repos, store \in {"task", "service"},
          chunk_list \in SeqsUpTo(ChunkContents, MaxFileChunks) \ {<<>>} :
          link_run' = [NoRun EXCEPT !.repo_id = repo_id, !.path = SharedPath,
                                    !.chunks = chunk_list, !.store = store,
                                    !.pc = "files"]
    /\ runs_started' = runs_started + 1
    /\ UNCHANGED <<file_table, link_table>>
    /\ UNCHANGED outsideLinks

\* The file upserts of _store_data / DatabaseService._store_files.
StoreFiles ==
    /\ link_run.pc = "files"
    /\ file_table' = UpsertFile(file_table, link_run.repo_id, link_run.path)
    /\ link_run' = [link_run EXCEPT !.pc = "links"]
    /\ UNCHANGED <<link_table, runs_started>>
    /\ UNCHANGED outsideLinks

\* The file-chunk relationships of the file: the record is looked up and one
\* upsert is made per chunk.
StoreRelationships ==
    /\ link_run.pc = "links"
    /\ \E record \in FileRecords(file_table, link_run.store, link_run.repo_id,
                                 link_run.path) :
          /\ link_table' = UpsertLinks(link_table, record.id, link_run.chunks)
          /\ link_run' = [link_run EXCEPT !.pc = "done", !.file_id = record.id,
                                          !.written = LinksFor(record.id, link_run.chunks)]
    /\ UNCHANGED <<file_table, runs_started>>
    /\ UNCHANGED outsideLinks

LinksNext == StartStoring \/ StoreFiles \/ StoreRelationships

SpecLinks == LinksInit /\ [][LinksNext]_vars

\* ------------------------------------------------------------- claims on the operation engine
Terminators == {<<LF>>, <<CR>>, <<CR, LF>>}

\* res is orig with ins added as one line of its own (ins and one line
\* terminator, at some position) and every character of orig kept in order.
OneLineAdded(orig, ins, res) ==
    \E p \in 0..Len(orig), t \in Terminators :
        \/ res = Slice(orig, 0, p) \o ins \o t \o SliceFrom(orig, p)
        \/ res = Slice(orig, 0, p) \o t \o ins \o SliceFrom(orig, p)

\* The last loop iteration took up an operation of one of these kinds.
LastOperationIs(kinds) == applied >= 1 /\ operation.op \in kinds

\* text occurs in s as a proper anchor (the empty anchor is left aside: the
\* claims below are stated for anchors that name some text).
Occurs(s, text) == text # <<>> /\ StrContains(s, text)

\* C1: for every content and every insertAfter / insertBefore whose find
\* occurs in it, the result is the original content with the insert text
\* added as one new line; every other character, line terminators and a
\* trailing newline included, is preserved in order.
C1_InsertPreservesContent ==
    (LastOperationIs({INSERT_AFTER, INSERT_BEFORE}) /\ Occurs(before, operation.find))
        => (outcome # "raised" /\ OneLineAdded(before, operation.insert, result))

\* Content that splitting into lines and joining again gives back unchanged.
LineNormal(text) == JoinLines(SplitLines(text)) = text

\* C2: when find occurs and until occurs at or after the first find,
\* deleteBlock removes exactly the span from the start of the first find to
\* the end of the matched until; the span holds the whole find and the whole
\* until, and the content before and after it is unchanged.  Stated here for
\* content whose line terminators the engine keeps, so that only the span
\* is in question.
C2_DeleteBlockExactSpan ==
    LET first == StrFind(before, operation.find, 0)
        stop == StrFind(before, operation.until, first) + Len(operation.until)
    IN  (/\ LastOperationIs({DELETE_BLOCK})
         /\ LineNormal(before)
         /\ Occurs(before, operation.find)
         /\ operation.until # <<>>
         /\ StrFind(before, operation.until, first) # -1)
            => /\ outcome # "raised"
               /\ stop >= first + Len(operation.find)
               /\ result = Slice(before, 0, first) \o SliceFrom(before, stop)

\* C3: replace applied to content that contains find replaces every
\* occurrence of find by replace and leaves all other text unchanged.
C3_ReplaceAllOccurrences ==
    (LastOperationIs({REPLACE}) /\ Occurs(before, operation.find))
        => (outcome # "raised"
            /\ result = StrReplace(before, operation.find, operation.replace))

\* The anchor of an operation (find, or until for deleteBlock) is not in text.
AnchorMissing(text, op) ==
    \/ ~StrContains(text, op.find)
    \/ op.op = DELETE_BLOCK /\ ~StrContains(text, op.until)

\* C4: if the anchor of operation k cannot be located in the content produced
\* by operations 1..k-1, the call raises, nothing after k is applied and no
\* partially modified content is returned.
C4_AnchorNotFoundRaises ==
    (LastOperationIs(OperationType) /\ AnchorMissing(before, operation))
        => (outcome = "raised" /\ returned = None /\ result = before)

\* The index of the line that holds the last character of the first match
\* of find_text.
AnchorEndLine(text, find_text) ==
    CountLF(Slice(text, 0, StrFind(text, find_text, 0) + Len(find_text) - 1))

\* C34: insertAfter whose find occurs in the content, on one line or across
\* lines, an anchor that ends with a newline included, puts the insert text
\* as a new line right after the line on which the first match of find ends:
\* no original line stands between the end of the anchor and the new line.
\* Stated for content whose line terminators the engine keeps.
C34_InsertRightAfterAnchorLine ==
    (/\ LastOperationIs({INSERT_AFTER})
     /\ LineNormal(before)
     /\ Occurs(before, operation.find))
        => /\ outcome # "raised"
           /\ result = JoinLines(ListInsert(SplitLines(before),
                                            AnchorEndLine(before, operation.find) + 1,
                                            operation.insert))

\* ------------------------------------------------------------- claims on the query job
\* The operations of a list that name file f, in the order of the list: the
\* k-th of them is the operation at the k-th position that names f.
PositionsNaming(operations, f) == {i \in 1..Len(operations) : operations[i].file = f}

NamingFile(operations, f) ==
    LET at == PositionsNaming(operations, f)
    IN  [k \in 1..Cardinality(at) |->
            operations[CHOOSE i \in at : Cardinality({j \in at : j <= i}) = k]]

\* The outcome of applying the first i operations one after the other, each to
\* the output of the one before it.
RECURSIVE OutputAfter(_, _, _)
OutputAfter(text, operations, i) ==
    IF i = 0 THEN Returned(text)
    ELSE LET earlier == OutputAfter(text, operations, i - 1)
         IN  IF earlier.ok THEN apply_operation_to_content(earlier.text, operations[i])
             ELSE earlier

AppliesInOrder(text, operations) == OutputAfter(text, operations, Len(operations)).ok

Handled(f) == validation[f].verdict # "none"
SuggestionsOf(f) == {s \in suggestion_table : s.file_id = f}

\* C5: for every file, the operations validated against its content and
\* persisted in its suggestion are exactly the operations the generation step
\* returned for it, in the same relative order, and validation applies
\* operation i+1 to the output of operation i.
C5_OperationsKeepOrder ==
    \A f \in Files :
        LET generated == NamingFile(detailed_operations, f)
        IN  /\ Handled(f) =>
                /\ validation[f].operations = generated
                /\ validation[f].fetched \in StoreContents =>
                       (validation[f].verdict = "passed"
                            <=> AppliesInOrder(validation[f].fetched, generated))
            /\ \A s \in SuggestionsOf(f) : s.operations_json = generated

\* C5 witness: a suggestion persisted with two different operations.
C5_Witness ==
    \E s \in suggestion_table :
        /\ Len(s.operations_json) = 2
        /\ s.operations_json[1] # s.operations_json[2]
        /\ validation[s.file_id].verdict = "passed"

\* C6: no Suggestion and no ReviewDecision is written for a file whose
\* operation sequence fails to apply to the live content fetched at validation
\* time.
C6_FailedValidationDropsSuggestion ==
    \A f \in Files :
        (/\ Handled(f)
         /\ validation[f].fetched \in StoreContents
         /\ ~AppliesInOrder(validation[f].fetched, validation[f].operations))
            => /\ SuggestionsOf(f) = {}
               /\ \A d \in review_decision_table :
                      \E s \in suggestion_table :
                          s.id = d.suggestion_id /\ s.file_id # f

\* C6 witness: the job completed after a file's operations failed to apply.
C6_Witness ==
    pc = "completed" /\ \E f \in Files : validation[f].verdict = "failed"

\* C7: if the live content cannot be fetched during validation (the store
\* raises, or returns no content), validation is skipped and the suggestion is
\* persisted anyway.
C7_FetchFailureSkipsValidation ==
    \A f \in Files :
        (Handled(f) /\ validation[f].fetched \in {None, StoreError})
            => /\ validation[f].verdict = "skipped"
               /\ \E s \in SuggestionsOf(f) :
                      s.operations_json = validation[f].operations

\* C7 witness: the store raised for one file and returned nothing for another.
C7_Witness ==
    /\ \E f \in Files : validation[f].fetched = StoreError
    /\ \E f \in Files : validation[f].fetched = None /\ Handled(f)

\* C8: in every reachable state each persisted Suggestion has exactly one
\* ReviewDecision, pending, written with it.
C8_SuggestionHasOneReviewDecision ==
    \A s \in suggestion_table :
        /\ Cardinality({d \in review_decision_table : d.suggestion_id = s.id}) = 1
        /\ \A d \in review_decision_table :
               d.suggestion_id = s.id => d.decision = "pending"

\* Pass-2 iterations that failed: no usable response, or a response with an
\* element off the Operation schema.
FailedIterations ==
    {i \in 1..Len(generation) : generation[i].gave \in {"failed", "off_schema"}}

\* C9: a failure confined to one selected file in Pass 2 does not abort the
\* other selected files: their operations are still produced and still turned
\* into suggestions (each goes through suggestion creation, and is persisted
\* unless its own validation fails).
C9_FileFailureIsIsolated ==
    (pc = "completed" /\ FailedIterations # {}) =>
        \A j \in 1..Len(generation) :
            (/\ generation[j].gave = "operations"
             /\ \A i \in FailedIterations : generation[i].file # generation[j].file)
                => \A k \in 1..Len(generation[j].operations) :
                       LET e == generation[j].operations[k]
                       IN  /\ \E n \in 1..Len(detailed_operations) :
                                  detailed_operations[n] = e
                           /\ Handled(e.file)
                           /\ validation[e.file].verdict # "failed" =>
                                  \E s \in SuggestionsOf(e.file) :
                                      \E n \in 1..Len(s.operations_json) :
                                          s.operations_json[n] = e

\* C10: if the Pass-1 selection response cannot be parsed into a list of file
\* paths, the job ends failed with the error message attached, not completed
\* with zero suggestions.
C10_UnparsableSelectionFailsJob ==
    (selection = "unparsable" /\ pc \in {"completed", "failed"})
        => (job.status = "failed" /\ job.error_msg # None)

\* Pass 1 has run and selected no file.
SelectedNoFiles == selection # "none" /\ files_to_edit = <<>>

\* Pass 1 retrieved candidates and every one of them scored below 0.05.
AllBelowNoiseFloor ==
    /\ relevant_chunks # {}
    /\ \A c \in relevant_chunks : c.similarity < NoiseFloor

\* C11: when Pass 1 selects no files, which includes the case where every
\* retrieved similarity score is below 0.05, the job ends completed with
\* suggestions_created = 0, persists no Suggestion, and does not fail (a
\* raise of the database or the task backend aside).
C11_NoFilesCompletesWithZero ==
    (SelectedNoFiles \/ AllBelowNoiseFloor) =>
        /\ suggestion_table = {}
        /\ job.status = "failed" => job.error_msg = BackendError
        /\ pc = "completed" =>
               /\ job.status = "completed"
               /\ job.suggestions_created = 0

\* C32: every candidate chunk that Pass 1 hands to the file summaries and the
\* selection prompt has a similarity of at least 0.05, also when every
\* retrieved candidate is below that floor.
C32_PassedOnAboveNoiseFloor ==
    \A c \in relevant_chunks : c.similarity >= NoiseFloor

\* C33: Pass 2 reads no file content from the store.  The content it puts in
\* a file's prompt is the content Pass 1 fetched and cached for that file,
\* whatever the store holds by then, and a selected file with no cached
\* content is skipped without a fetch.
C33_Pass2UsesCachedContent ==
    \A i \in 1..Len(generation) :
        LET g == generation[i]
        IN  /\ g.gave = "no_content" <=> cached_content[g.file] \in {None, <<>>}
            /\ g.gave = "no_content" => g.content = None /\ g.operations = <<>>
            /\ g.gave # "no_content" => g.content = cached_content[g.file]

C33_Witness ==
    /\ Len(generation) = 2
    /\ generation[1].gave = "operations"
    /\ generation[1].content = cached_content[generation[1].file]
    /\ generation[2].gave = "no_content"
    /\ cached_content[generation[2].file] = None

\* C37: every Suggestion a two-pass query job persists belongs to a file
\* that Pass 1 selected: an operation whose file names a path outside
\* files_to_edit leads to no Suggestion.
C37_SuggestionsOnSelectedFiles ==
    \A suggestion \in suggestion_table :
        \E i \in 1..Len(files_to_edit) : files_to_edit[i] = suggestion.file_id

\* ------------------------------------------------------------- claims on the splitter
\* Token index t lies in some emitted window.
Covered(t) == \E i \in 1..Len(chunks) : chunks[i].start <= t /\ t < chunks[i].end

\* C12: the windows [start_i, end_i) emitted by split_text_by_tokens cover
\* every token index of the input: no window starts after the end of the one
\* before it, and once the call has returned every token is in a window.
C12_WindowsCoverTokens ==
    /\ \A i \in 1..(Len(chunks) - 1) : chunks[i + 1].start <= chunks[i].end
    /\ split_pc = "returned" => \A t \in 0..(Len(tokens) - 1) : Covered(t)

\* C13: split_text_by_tokens terminates for every max_tokens >= 1 and
\* overlap_tokens >= 0 because the window start strictly increases at every
\* loop iteration, whatever snapping does to the window end.
C13_StartStrictlyIncreases ==
    chunks # <<>> => start > chunks[Len(chunks)].start

\* C30: a non-empty text of fewer than max_tokens tokens is returned as
\* exactly one chunk, which holds all its tokens, and the empty text as no
\* chunk, whatever overlap_tokens is.
C30_ShortTextIsOneChunk ==
    /\ Len(tokens) < max_tokens => Len(chunks) <= 1
    /\ (split_pc = "returned" /\ tokens = <<>>) => chunks = <<>>
    /\ (split_pc = "returned" /\ tokens # <<>> /\ Len(tokens) < max_tokens) =>
          /\ Len(chunks) = 1
          /\ chunks[1].start = 0
          /\ chunks[1].end = Len(tokens)
          /\ chunks[1].text = Strip(Decode(tokens))

C30_Witness ==
    /\ split_pc = "returned"
    /\ Len(tokens) >= 2
    /\ Len(tokens) < max_tokens
    /\ overlap_tokens >= max_tokens
    /\ Len(chunks) = 1

\* C38: every window split_text_by_tokens emits holds at least one token, its
\* end strictly greater than its start, also when the decoded window text
\* ends on a sentence end; no chunk is empty.
C38_WindowsAreNotEmpty ==
    \A i \in 1..Len(chunks) :
        /\ chunks[i].end > chunks[i].start
        /\ chunks[i].text # <<>>

\* ------------------------------------------------------------- claims on the chunk store
\* The provider calls that returned an embedding for a content.
EmbeddingsOf(chunk_content) == {c \in embeddings_generated : c.content = chunk_content}

\* C14: under any interleaving of chunk processing, the embedding provider
\* is invoked for a given chunk content by at most one ensure_chunk call:
\* identical text costs one embedding in total.
C14_OneEmbeddingPerContent ==
    \A chunk_content \in ChunkContents : Cardinality(EmbeddingsOf(chunk_content)) <= 1

RowsOf(chunk_content) == {row \in chunk_table : row.hash = Sha256(chunk_content)}

ReturnedBy(w) ==
    {worker[w].file_chunks[k].chunk_order : k \in 1..Len(worker[w].file_chunks)}

\* C15: concurrent ensure_chunk calls for the same content, in any
\* interleaving of their check, embedding and insert steps, never raise and
\* converge to exactly one stored row for the hash, holding the chunk text:
\* the insert is atomic insert-if-absent.
C15_ConcurrentCallsConverge ==
    /\ \A w \in Workers : worker[w].pc # "raised"
    /\ \A chunk_content \in ChunkContents :
           /\ Cardinality(RowsOf(chunk_content)) <= 1
           /\ \A row \in RowsOf(chunk_content) : row.content = chunk_content
    /\ \A w \in Workers : \A order \in ReturnedBy(w) :
           Cardinality(RowsOf(worker[w].chunks[order + 1])) = 1

\* C15 witness: two jobs both embedded the same content and both finished.
C15_Witness ==
    /\ \A w \in Workers : worker[w].pc = "done"
    /\ \E c1, c2 \in embeddings_generated :
           c1.worker # c2.worker /\ c1.content = c2.content

LinkOrders(w) == {row.chunk_order : row \in {r \in file_chunk_table : r.file_id = w}}

\* C17: after an indexing run, the chunk_order values of a file's
\* FileChunkLink rows are exactly 0..n-1, also when embedding generation
\* failed for some chunk of the file.
C17_ChunkOrderContiguous ==
    \A w \in Workers :
        worker[w].pc = "done" =>
            LinkOrders(w) = 0..(Cardinality(LinkOrders(w)) - 1)

\* ------------------------------------------------------------- claims on the indexing run
\* C18: every clone workspace a hard indexing run created is removed by the
\* time the run ends, whatever the outcome, also when cloning or file
\* processing raised after the directory was created.
C18_WorkspaceRemoved ==
    (index_pc = "returned" /\ ~soft_reindex) => directories = {}

\* C19: a run in which a stage raised ends with its Job record in status
\* failed and error_msg equal to the exception message.
C19_FailureIsRecorded ==
    (index_pc = "returned" /\ index_result = "failed") =>
        /\ index_job.status = "failed"
        /\ index_job.error_msg = exception

HardStages ==
    << [step |-> "starting", progress |-> 0],
       [step |-> "cloning", progress |-> 10],
       [step |-> "processing_files", progress |-> 30],
       [step |-> "generating_embeddings", progress |-> 60],
       [step |-> "storing_data", progress |-> 80],
       [step |-> "merkle_tree", progress |-> 90],
       [step |-> "notifying", progress |-> 95],
       [step |-> "completed", progress |-> 100] >>

SoftStages ==
    << [step |-> "starting", progress |-> 0],
       [step |-> "fetching_existing_files", progress |-> 20],
       [step |-> "files_processed", progress |-> 40],
       [step |-> "generating_embeddings", progress |-> 60],
       [step |-> "storing_data", progress |-> 80],
       [step |-> "merkle_tree", progress |-> 90],
       [step |-> "notifying", progress |-> 95],
       [step |-> "completed", progress |-> 100] >>

ReportedSteps == {reported[i].step : i \in DOMAIN reported}

\* C20: a run that completes has reported exactly the stages of its mode, in
\* order and with their percentages, none skipped or repeated; a soft run
\* never reports cloning and a hard run never reports fetching_existing_files.
C20_StagesInOrder ==
    /\ index_result = "completed" =>
          reported = IF soft_reindex THEN SoftStages ELSE HardStages
    /\ soft_reindex => "cloning" \notin ReportedSteps
    /\ ~soft_reindex => "fetching_existing_files" \notin ReportedSteps

C20_Witness ==
    /\ index_pc = "returned"
    /\ index_result = "completed"
    /\ soft_reindex
    /\ Len(reported) = 8

\* C21: a soft re-index that finds no stored File records fails with the
\* 'cannot perform soft re-index' error, never reports generating_embeddings,
\* and its Job ends failed with that error.
C21_SoftWithoutFilesFailsFast ==
    (/\ index_pc = "returned"
     /\ soft_reindex
     /\ ~files_found
     /\ "fetching_existing_files" \in ReportedSteps) =>
        /\ index_result = "failed"
        /\ exception = NoFilesFound
        /\ "generating_embeddings" \notin ReportedSteps
        /\ index_job.status = "failed"
        /\ index_job.error_msg = NoFilesFound

\* C22: once the task has finished and the endpoint has created the Job
\* record, the record has status completed or failed, in every interleaving
\* of the endpoint with the worker's progress callbacks.
C22_FinishedJobIsTerminal ==
    (index_pc = "returned" /\ index_job # NoJob) =>
        index_job.status \in {"completed", "failed"}

\* The order of the Job statuses: pending, then running, then an end.
StatusRank(status) ==
    CASE status = "pending" -> 0
      [] status = "running" -> 1
      [] status \in {"completed", "failed"} -> 2

HasRequiredFields(e) ==
    /\ e.file # NoFile
    /\ e.op \in OperationType
    /\ e.find # None
    /\ e.op \in {INSERT_AFTER, INSERT_BEFORE} => e.insert # None
    /\ e.op = REPLACE => e.replace # None
    /\ e.op = DELETE_BLOCK => e.until # None

ValidationRan == parsed_json.ok /\ parse_pc \in {"store", "stored", "failed"}

\* C23: validate_operations accepts a batch only if every element has a
\* file, a valid op, a find and its kind-specific field; one violating element
\* fails the whole batch with a parse error, and no operation of the batch,
\* valid or not, is returned or stored.
C23_InvalidElementFailsBatch ==
    ValidationRan =>
        /\ validated.ok =>
              /\ validated.text = parsed_json.text
              /\ \A i \in 1..Len(parsed_json.text) : HasRequiredFields(parsed_json.text[i])
        /\ (\E i \in 1..Len(parsed_json.text) : ~HasRequiredFields(parsed_json.text[i])) =>
              /\ validated = ParseError
              /\ parse_pc = "failed"
              /\ \A f \in Files : stored_json[f] = None

C23_Witness ==
    /\ ValidationRan
    /\ Len(parsed_json.text) = 2
    /\ HasRequiredFields(parsed_json.text[1])
    /\ ~HasRequiredFields(parsed_json.text[2])
    /\ validated = ParseError

\* The operations of a list that name file f, in their order.
OperationsNaming(items, f) ==
    LET Names(e) == e.file = f
    IN  SelectSeq(items, Names)

SchemaValid(e) ==
    /\ HasRequiredFields(e)
    /\ \A value \in {e.find, e.replace, e.insert, e.until} : value # NotAString

\* C24: a list of schema-valid operations written as operations JSON (bare
\* or in a code fence), parsed, validated and written again as the
\* operations_json of each file's suggestion, comes back with the same
\* operations in the same order and the same value in every field.
C24_RoundTripIsLossless ==
    (/\ parse_pc \in {"stored", "failed"}
     /\ \A i \in 1..Len(llm_operations) : SchemaValid(llm_operations[i])) =>
        /\ parse_pc = "stored"
        /\ \A f \in Files :
              IF OperationsNaming(llm_operations, f) = <<>>
              THEN stored_json[f] = None
              ELSE /\ stored_json[f] # None
                   /\ Loads(stored_json[f]) = JsonList(OperationsNaming(llm_operations, f))

\* ------------------------------------------------------------- claims on the elbow analyzer
StrictlyDecreasing(scores) == \A i \in 1..(Len(scores) - 1) : scores[i] > scores[i + 1]

Uniform(scores) == \A i \in 1..Len(scores) : scores[i] = scores[1]

\* C25: for a strictly decreasing list of at least min_docs scores the
\* returned count is at least min_docs and at most the length of the list,
\* on the threshold-filter, the ensemble and the adaptive-fallback path.
C25_CountWithinBounds ==
    (/\ elbow_pc = "returned"
     /\ StrictlyDecreasing(similarity_scores)
     /\ Len(similarity_scores) >= min_docs) =>
        /\ elbow_result.method \in {"threshold_filter", "ensemble", "adaptive_fallback"}
        /\ min_docs <= elbow_result.count
        /\ elbow_result.count <= Len(similarity_scores)

C25_Witness ==
    /\ elbow_pc = "returned"
    /\ StrictlyDecreasing(similarity_scores)
    /\ Len(similarity_scores) > min_docs
    /\ min_docs = 3
    /\ elbow_result.method = "ensemble"
    /\ Median(methods_results(relevant_scores)) < min_docs
    /\ elbow_result.count = min_docs

\* C26: for a list of more than min_docs equal scores at or above the
\* significance threshold, the call returns the uniform count of the adaptive
\* fallback, min(len, max_docs / 2), and not min_docs.
C26_UniformTakesMore ==
    (/\ elbow_pc = "returned"
     /\ Uniform(similarity_scores)
     /\ Len(similarity_scores) > min_docs
     /\ \A i \in 1..Len(similarity_scores) : similarity_scores[i] >= SignificanceThreshold) =>
        /\ elbow_result.method = "adaptive_fallback"
        /\ elbow_result.count = Min(Len(relevant_scores), max_docs \div 2)

\* C27: for a list of fewer than min_docs scores, the empty list included,
\* the call returns exactly min_docs and tags its metadata fallback_min.
C27_ShortListReturnsMinDocs ==
    (elbow_pc = "returned" /\ Len(similarity_scores) < min_docs) =>
        elbow_result = [count |-> min_docs, method |-> "fallback_min"]

C27_Witness ==
    /\ elbow_pc = "returned"
    /\ similarity_scores # <<>>
    /\ Len(similarity_scores) < min_docs
    /\ elbow_result = [count |-> min_docs, method |-> "fallback_min"]

\* C40: a filtered score list of three or more always gets a rank of at
\* least 2 from the knee detector, so the adaptive fallback answers only for
\* filtered lists of fewer than three scores, and never when min_docs is 3.
C40_KneeAlwaysFires ==
    elbow_pc # "filter" =>
        /\ Len(relevant_scores) >= 3 => _detect_knee_point(relevant_scores) >= 2
        /\ elbow_result.method = "adaptive_fallback" => Len(relevant_scores) < 3
        /\ min_docs = 3 => elbow_result.method # "adaptive_fallback"

\* C40 witness: a flat list of three or more filtered scores, on which only
\* the knee detector fired, was answered by the ensemble.
C40_Witness ==
    /\ elbow_pc = "returned"
    /\ elbow_result.method = "ensemble"
    /\ Len(relevant_scores) >= 3
    /\ Uniform(relevant_scores)
    /\ Len(methods_results(relevant_scores)) = 1
    /\ methods_results(relevant_scores)[1].name = "knee_detection"

\* ------------------------------------------------------------- claims on the Merkle root
PairsOf(list) == {list[i] : i \in 1..Len(list)}

BothCalculated == \A r \in RepoStates : merkle_pc[r] = "calculated"

\* C28: two repository states whose sets of (path, content_hash) pairs
\* differ (a content hash changed, a file added or a file removed) have
\* different root hashes, sha256 taken as collision-free.
C28_DifferentFilesDifferentRoot ==
    (BothCalculated /\ PairsOf(files_data[1]) # PairsOf(files_data[2])) =>
        root_hash[1] # root_hash[2]

\* C29: two lists that hold the same (path, content_hash) pairs in a
\* different order have the same root hash.
C29_RootIgnoresOrder ==
    (BothCalculated /\ Len(files_data[1]) = Len(files_data[2])
                    /\ PairsOf(files_data[1]) = PairsOf(files_data[2])) =>
        root_hash[1] = root_hash[2]

C29_Witness ==
    /\ BothCalculated
    /\ Len(files_data[1]) = 2
    /\ files_data[2] = <<files_data[1][2], files_data[1][1]>>
    /\ root_hash[1] = root_hash[2]
    /\ root_hash[1] # None

\* ------------------------------------------------------------- claims on the embedding retry
\* C31: when an attempt of generate_embedding_with_retry fails and another
\* attempt follows, the call sleeps 2^attempt seconds between the two: no two
\* provider calls for the text are next to each other without that sleep.
C31_BackoffBetweenAttempts ==
    \A i \in 1..(Len(provider_log) - 1) :
        provider_log[i].kind = "call" =>
            /\ provider_log[i + 1].kind = "sleep"
            /\ provider_log[i + 1].seconds = 2 ^ provider_log[i].attempt

\* ------------------------------------------------------------- claims on the file-chunk links
\* The file record with an id.
FileOf(id) == CHOOSE record \in file_table : record.id = id

\* C35: every link written while a repository is indexed points at a file
\* record of that repository, also when another repository holds a file of
\* the same path: the links of another repository's file are neither created
\* nor overwritten.
C35_LinksStayInRepository ==
    link_run.pc = "done" =>
        /\ FileOf(link_run.file_id).repo_id = link_run.repo_id
        /\ \A row \in link_run.written : FileOf(row.file_id).repo_id = link_run.repo_id

\* C36: after a completed re-index of a file its links are exactly the
\* chunks of its current content; when the content has fewer chunks than at
\* the index before, no link at or beyond the new chunk count is left.
C36_LinksMatchCurrentChunks ==
    link_run.pc = "done" =>
        {row \in link_table : row.file_id = FileId(link_run.repo_id, link_run.path)}
            = LinksFor(FileId(link_run.repo_id, link_run.path), link_run.chunks)

====
